---- MODULE Spec2Model ----
(***************************************************************************)
(* Model of the hybrid QA runner (deterministic -> learned -> AI step      *)
(* resolution with a persistent knowledge base of learned selectors).      *)
(*                                                                         *)
(* Strings are sequences of tokens [k, v]; confidence is fixed point, in   *)
(* hundredths (0.7 is 70); timestamps are readings of a logical clock.     *)
(***************************************************************************)
EXTENDS Integers, Sequences, FiniteSets, TLC

\* ------------------------------------------------------------------ bounds
\* Number of process invocations (runs of the runner) that are explored.
MaxRuns == 2

\* ------------------------------------------------------- program constants
InitialConfidence == 70
SuccessStep == 2
FailureStep == 10
MaxConfidence == 99
MinConfidence == 30
DeleteBelow == 40
ExactThreshold == 80
SimilarThreshold == 75

\* ------------------------------------------------------------------ strings
Lit(s) == [k |-> "lit", v |-> s]
\* a path segment, a piece of text that starts with '/'
Path(s) == [k |-> "path", v |-> s]
\* the token {key}
Brace(key) == [k |-> "brace", v |-> key]
\* the token ${key}
Dollar(key) == [k |-> "dollar", v |-> key]
\* :contains('text') with quoted, non-empty, quote-free text
Contains(text) == [k |-> "contains", v |-> text]
\* :contains(text) written so that the pattern of convertSelector misses it
ContainsRaw(text) == [k |-> "containsRaw", v |-> text]
\* :has-text("text")
HasText(text) == [k |-> "hasText", v |-> text]
\* text=text
TextEq(text) == [k |-> "textEq", v |-> text]

Empty == << >>

\* an optional value: << >> is null/undefined, <<x>> is x
None == << >>
Some(x) == <<x>>

RECURSIVE Splice(_, _, _)
\* str.replace(/pattern/g, fn): every token of kind kind is replaced by fn's result
Splice(str, kind, params) ==
  IF str = Empty THEN Empty
  ELSE LET t == Head(str)
           r == IF t.k = kind /\ t.v \in DOMAIN params /\ params[t.v] # Empty
                THEN params[t.v]
                ELSE <<t>>
       IN r \o Splice(Tail(str), kind, params)

replaceParams(str, params) ==
  IF str = Empty THEN str
  ELSE Splice(Splice(str, "dollar", params), "brace", params)

RECURSIVE ReplaceFirstContains(_)
\* selector.replace(/:contains\(...\)/, 'text=$1'): the first match only
ReplaceFirstContains(sel) ==
  IF sel = Empty THEN Empty
  ELSE IF Head(sel).k = "contains"
       THEN <<TextEq(Head(sel).v)>> \o Tail(sel)
       ELSE <<Head(sel)>> \o ReplaceFirstContains(Tail(sel))

convertSelector(selector) ==
  IF selector = Empty THEN selector
  ELSE LET all == [i \in 1..Len(selector) |->
                     IF selector[i].k = "contains"
                     THEN HasText(selector[i].v) ELSE selector[i]]
       IN IF Head(all).k \in {"contains", "containsRaw"}
          THEN ReplaceFirstContains(all)
          ELSE all

Includes(url, seg) == \E i \in 1..Len(url) : url[i].v = seg

classifyPage(url) ==
  IF Includes(url, "/login") THEN "authentication"
  ELSE IF Includes(url, "/dashboard") THEN "dashboard"
  ELSE IF Includes(url, "/call") THEN "call-management"
  ELSE IF Includes(url, "/appointment") THEN "appointments"
  ELSE "general"

\* ------------------------------------------------------------------- flows
Step(action, target, value) ==
  [action |-> action, target |-> target, value |-> value, optional |-> FALSE]

\* the step with "optional": true
Optional(step) == [step EXCEPT !.optional = TRUE]

SelEmail == <<Lit("#email")>>
SelLogin == <<Lit("button"), Contains("Login")>>
SelMissing == <<Lit("#missing")>>

\* a node of the flows file: a category holds flows (kids), a flow holds a
\* steps list, a prompt, or both
Node(kids, name, steps, prompt) ==
  [kids |-> kids, name |-> name, steps |-> steps, prompt |-> prompt,
   requiredParams |-> << >>, generatedAt |-> None, originalPrompt |-> None]

Category(kids) == Node(kids, "", None, None)
Flow(name, steps) == Node(<< >>, name, Some(steps), None)
PromptFlow(name, prompt) == Node(<< >>, name, None, Some(prompt))
\* a flow with "requiredParams"
Requires(flow, requiredParams) == [flow EXCEPT !.requiredParams = requiredParams]

SelName == <<Lit("#name")>>

\* the flows file as the first run finds it
InitFlows ==
  Category(
    [authentication |->
       Category([login |->
          Flow("Login", << Step("navigate", <<Path("/login")>>, Empty),
                           Step("fill", SelEmail, <<Brace("email")>>),
                           Step("click", SelLogin, Empty) >>)]),
     dashboard |->
       Category([viewDashboard |->
          Flow("Dashboard", << Optional(Step("click", SelMissing, Empty)),
                               Step("screenshot", Empty, Empty) >>),
                 explore |-> PromptFlow("Explore", "open the login dialog")]),
     appointmentTypes |->
       Category([addAppointmentType |->
          Requires(
            Flow("Add Appointment Type",
                 << Step("type", SelName, <<Brace("appointmentName")>>),
                    Optional(Step("click", SelMissing, Empty)),
                    Step("click", SelLogin, Empty),
                    Step("clear", SelName, Empty) >>),
            << "appointmentName" >>)])])

\* the suites of the runner: flow paths of the flows file and paths that it
\* does not have
testSuites ==
  [smoke |-> << "authentication.login", "dashboard.viewDashboard" >>,
   regression |-> << "complete.endToEnd", "authentication", "dashboard.explore" >>]

\* flowPath.split('.')
Split(flowPath) ==
  CASE flowPath = "authentication.login" -> << "authentication", "login" >>
    [] flowPath = "dashboard.viewDashboard" -> << "dashboard", "viewDashboard" >>
    [] flowPath = "dashboard.explore" -> << "dashboard", "explore" >>
    [] flowPath = "complete.endToEnd" -> << "complete", "endToEnd" >>
    [] flowPath = "authentication" -> << "authentication" >>
    [] flowPath = "appointmentTypes.addAppointmentType" ->
         << "appointmentTypes", "addAppointmentType" >>

RECURSIVE Walk(_, _)
\* the loop of getFlowByPath: current = current[part]; if (!current) return null
Walk(current, parts) ==
  IF parts = << >> THEN Some(current)
  ELSE IF Head(parts) \in DOMAIN current.kids
       THEN Walk(current.kids[Head(parts)], Tail(parts))
       ELSE None

getFlowByPath(flowPath, data) == Walk(data, Split(flowPath))

RECURSIVE SetNode(_, _, _)
\* current[lastPart] = node, with current reached along the first parts
SetNode(data, parts, node) ==
  IF Len(parts) = 1
  THEN [data EXCEPT !.kids[parts[1]] = node]
  ELSE [data EXCEPT !.kids[parts[1]] = SetNode(@, Tail(parts), node)]

\* the steps of the flow at a path that has them
FlowSteps(data, flowPath) == getFlowByPath(flowPath, data)[1].steps[1]

\* first 8 hex digits of the md5 of a selector, for the selectors of the flows
Md5Prefix(selector) ==
  CASE selector = SelMissing -> "9e40527e"
    [] selector = SelEmail -> "6bade636"
    [] selector = SelLogin -> "787d65e6"
    [] selector = Empty -> "d41d8cd9"

generateKey(step) == step.action \o "-" \o Md5Prefix(step.target)

\* ---------------------------------------------------------- knowledge base
\* kb.solutions is a Map: a sequence of entries with distinct ids, in
\* insertion order.
Ids(m) == {m[i].id : i \in 1..Len(m)}

MapGet(m, id) ==
  IF \E i \in 1..Len(m) : m[i].id = id
  THEN Some(m[CHOOSE i \in 1..Len(m) : m[i].id = id])
  ELSE None

MapSet(m, s) ==
  IF \E i \in 1..Len(m) : m[i].id = s.id
  THEN [i \in 1..Len(m) |-> IF m[i].id = s.id THEN s ELSE m[i]]
  ELSE Append(m, s)

MapDelete(m, id) == SelectSeq(m, LAMBDA e : e.id # id)

RECURSIVE MapFrom(_)
\* new Map(list.map(s => [s.id, s]))
MapFrom(list) ==
  IF list = Empty THEN Empty
  ELSE MapSet(MapFrom(SubSeq(list, 1, Len(list) - 1)), list[Len(list)])

Min(a, b) == IF a < b THEN a ELSE b
Max(a, b) == IF a > b THEN a ELSE b

\* solutions.json: whether it exists, whether its text parses as JSON, whether
\* the parsed value has a solutions array, and that array
File(exists, valid, hasSolutions, solutions) ==
  [exists |-> exists, valid |-> valid, hasSolutions |-> hasSolutions,
   solutions |-> solutions]

\* the body of the try of loadKnowledgeBase: JSON.parse raises a SyntaxError,
\* data.solutions.map raises a TypeError
ReadSolutions(f) ==
  IF ~f.valid \/ ~f.hasSolutions
  THEN [threw |-> TRUE, solutions |-> Empty]
  ELSE [threw |-> FALSE, solutions |-> MapFrom(f.solutions)]

\* loadKnowledgeBase without its try
loadKnowledgeBase_nocatch(f) ==
  IF f.exists THEN ReadSolutions(f) ELSE [threw |-> FALSE, solutions |-> Empty]

loadKnowledgeBase(f) ==
  IF f.exists /\ ~ReadSolutions(f).threw
  THEN [threw |-> FALSE, solutions |-> ReadSolutions(f).solutions]
  ELSE [threw |-> FALSE, solutions |-> Empty]

\* a save that keeps only the solutions a lookup can return
saveKnowledgeBase_trusted(m) ==
  File(TRUE, TRUE, TRUE, SelectSeq(m, LAMBDA e : e.confidence > SimilarThreshold))

saveKnowledgeBase(m) == File(TRUE, TRUE, TRUE, m)

RECURSIVE ScanSimilar_ge(_, _, _)
\* the scan with >= in place of > at the threshold
ScanSimilar_ge(step, context, entries) ==
  IF entries = Empty THEN [threw |-> FALSE, sol |-> None]
  ELSE LET s == Head(entries)
       IN IF s.stepAction # step.action
          THEN ScanSimilar_ge(step, context, Tail(entries))
          ELSE IF s.pageContext = None
          THEN [threw |-> TRUE, sol |-> None]
          ELSE IF s.pageContext[1].pageType = context.pageType
                  /\ s.confidence >= SimilarThreshold
          THEN [threw |-> FALSE, sol |-> Some(s)]
          ELSE ScanSimilar_ge(step, context, Tail(entries))

RECURSIVE ScanSimilar(_, _, _)
\* the loop over kb.solutions.values(): reading pageContext.pageType of an
\* entry without pageContext raises a TypeError
ScanSimilar(step, context, entries) ==
  IF entries = Empty THEN [threw |-> FALSE, sol |-> None]
  ELSE LET s == Head(entries)
       IN IF s.stepAction # step.action
          THEN ScanSimilar(step, context, Tail(entries))
          ELSE IF s.pageContext = None
          THEN [threw |-> TRUE, sol |-> None]
          ELSE IF s.pageContext[1].pageType = context.pageType
                  /\ s.confidence > SimilarThreshold
          THEN [threw |-> FALSE, sol |-> Some(s)]
          ELSE ScanSimilar(step, context, Tail(entries))

findLearnedSolution(step, context, m) ==
  LET exact == MapGet(m, generateKey(step))
  IN IF exact # None /\ exact[1].confidence > ExactThreshold
     THEN [threw |-> FALSE, sol |-> exact]
     ELSE ScanSimilar(step, context, m)

\* recordSolution that keeps the entry a key already has
recordSolution_ifAbsent(step, learnedSelector, context, m, now) ==
  IF generateKey(step) \in Ids(m) THEN m
  ELSE Append(m, [id |-> generateKey(step),
                  flowPath |-> context.flowPath,
                  stepAction |-> step.action,
                  originalSelector |-> step.target,
                  learnedSelector |-> learnedSelector,
                  confidence |-> InitialConfidence,
                  successCount |-> 1,
                  failureCount |-> 0,
                  pageContext |-> Some([url |-> context.url,
                                        pageType |-> context.pageType]),
                  learnedAt |-> now,
                  lastUsed |-> now])

recordSolution(step, learnedSelector, context, m, now) ==
  MapSet(m, [id |-> generateKey(step),
             flowPath |-> context.flowPath,
             stepAction |-> step.action,
             originalSelector |-> step.target,
             learnedSelector |-> learnedSelector,
             confidence |-> InitialConfidence,
             successCount |-> 1,
             failureCount |-> 0,
             pageContext |-> Some([url |-> context.url,
                                   pageType |-> context.pageType]),
             learnedAt |-> now,
             lastUsed |-> now])

\* recordSuccess without the cap
\* a success that takes the entry out of the map
recordSuccess_evict(solutionId, m, now) == MapDelete(m, solutionId)

recordSuccess_nocap(solutionId, m, now) ==
  [i \in 1..Len(m) |->
     IF m[i].id = solutionId
     THEN [m[i] EXCEPT !.successCount = @ + 1,
                       !.lastUsed = now,
                       !.confidence = @ + SuccessStep]
     ELSE m[i]]

recordSuccess(solutionId, m, now) ==
  [i \in 1..Len(m) |->
     IF m[i].id = solutionId
     THEN [m[i] EXCEPT !.successCount = @ + 1,
                       !.lastUsed = now,
                       !.confidence = Min(MaxConfidence, @ + SuccessStep)]
     ELSE m[i]]

\* recordFailure that demotes and never deletes
recordFailure_keep(solutionId, m) ==
  [i \in 1..Len(m) |->
     IF m[i].id = solutionId
     THEN [m[i] EXCEPT !.failureCount = @ + 1,
                       !.confidence = Max(MinConfidence, @ - FailureStep)]
     ELSE m[i]]

recordFailure(solutionId, m) ==
  LET upd == [i \in 1..Len(m) |->
                IF m[i].id = solutionId
                THEN [m[i] EXCEPT !.failureCount = @ + 1,
                                  !.confidence = Max(MinConfidence, @ - FailureStep)]
                ELSE m[i]]
      now == MapGet(upd, solutionId)
  IN IF now # None /\ now[1].confidence < DeleteBelow
     THEN MapDelete(upd, solutionId)
     ELSE upd

\* the AI tier guarded by the mode alone
AIEnabled_modeOnly(client, m) == m = "hybrid"

AIEnabled(client, m) == client /\ m = "hybrid"

\* ------------------------------------------------------------- environment
BaseUrl == <<Lit("https://app.test")>>
LoginUrl == <<Lit("https://app.test"), Path("/login")>>

\* selectors the AI Oracle may suggest and learned entries may hold
AISel1 == <<TextEq("Login")>>
AISel2 == <<Lit("[data-testid=submit]")>>
AISelectors == {AISel1, AISel2}

\* a page is the set of selectors its driver honors
PageStates ==
  { {},
    {convertSelector(SelEmail), convertSelector(SelLogin)},
    {convertSelector(SelLogin), AISel1},
    {AISel1, AISel2},
    {AISel2, SelMissing} }

Entry(id, action, orig, learned, conf, ctx) ==
  [id |-> id, flowPath |-> "", stepAction |-> action,
   originalSelector |-> orig, learnedSelector |-> learned,
   confidence |-> conf, successCount |-> 1, failureCount |-> 0,
   pageContext |-> ctx, learnedAt |-> 0, lastUsed |-> 0]

Ctx(pageType) == Some([url |-> BaseUrl, pageType |-> pageType])

\* solutions.json as found when the first run starts: absent, unreadable, or
\* written by an earlier run of this runner or of the CI runner (whose
\* entries carry no pageContext)
InitFiles ==
  LET exact85 == Entry("click-9e40527e", "click", SelMissing, AISel1, 85,
                       Ctx("authentication"))
      exact80 == Entry("click-9e40527e", "click", SelMissing, AISel2, 80,
                       Ctx("general"))
      sim75 == Entry("click-787d65e6", "click", SelLogin, AISel2, 75, Ctx("general"))
      sim78 == Entry("click-ce50a093", "click", <<Lit("button")>>, AISel2, 78,
                     Ctx("general"))
      fill99 == Entry("fill-6bade636", "fill", SelEmail, AISel1, 99, Ctx("general"))
      legacy == Entry("click-1738073400000", "click", <<Lit("button")>>, AISel1, 85,
                      None)
      file(list) == File(TRUE, TRUE, TRUE, list)
  IN { File(FALSE, FALSE, FALSE, Empty),
       File(TRUE, FALSE, FALSE, Empty),
       File(TRUE, TRUE, FALSE, Empty),
       file(Empty),
       file(<<exact85>>),
       file(<<exact80, fill99>>),
       file(<<sim75, sim78>>),
       file(<<sim78, exact85>>),
       file(<<sim75, exact80>>),
       file(<<fill99, legacy, sim78>>) }

\* -------------------------------------------------------------------- state
VARIABLES
  file,            \* solutions.json
  kb,              \* knowledgeBase.solutions
  pc,              \* position of the single thread of control
  run,             \* number of the process invocation
  aiClient,        \* whether ANTHROPIC_API_KEY gave an AI client
  mode,            \* config.mode
  url,             \* config.url
  honored,         \* the page: selectors the driver honors now
  flowIdx,         \* index into flowPaths (main's loop)
  stepIdx,         \* i + 1 of executeFlow's loop
  context,         \* executionContext of the running flow
  learnedSolution, \* local of executeStepHybrid
  aiResponse,      \* selector parsed from the AI response (executeWithAI)
  results,         \* results.flows
  hybridStats,     \* results.hybridStats, aiCost in thousandths of a dollar
  clock,           \* the time, read by new Date(), to the run
  trace,           \* tier events of the step being executed (its console lines)
  kb0,             \* knowledgeBase.solutions as the running step found it
  stepLog,         \* console lines of the steps started in this run
  file0,           \* solutions.json as it was when the process started
  io,              \* reads and writes of solutions.json by this process
  suite,           \* config.suite
  flowsFile,       \* the flows file (config.flows)
  flowsData,       \* flowsData, the flows in memory
  tool,            \* a call of the execute_flow tool: its inputs and its locals
  fn,              \* a call of a string helper: its arguments and its result
  bm,              \* the BrowserManager: its module variables and what was created
  loop,            \* an AI-driven test loop: executeAITest / executeTest
  ci,              \* the CI hybrid runner: its solutions file and its step
  location,        \* page.url() of the hybrid runner's page
  proc             \* the process: results.error and the code it exited with

vars == << file, kb, pc, run, aiClient, mode, url, honored, flowIdx, stepIdx,
           context, learnedSolution, aiResponse, results, hybridStats, clock,
           trace, kb0, stepLog, file0, io, suite, flowsFile, flowsData, tool,
           fn, bm, loop, ci, location, proc >>

\* the page of a browser that was just launched
AboutBlank == <<Lit("about:blank")>>

\* the address a navigate step goes to: config.url + url for a path,
\* config.url for no url, and the url itself otherwise
FullUrl(target) ==
  IF target = Empty THEN url
  ELSE IF Head(target).k = "path" THEN url \o target
  ELSE target

\* the process while main runs: no results.error, not exited
Running == [error |-> "", exitCode |-> None]

\* no call of the execute_flow tool
NoCall == [pc |-> "none"]

Params == [email |-> <<Lit("qa@app.test")>>, password |-> Empty, baseUrl |-> url]

ZeroStats == [deterministicSuccess |-> 0, learnedSuccess |-> 0, aiSuccess |-> 0,
              totalSteps |-> 0, aiCost |-> 0]

Event(ev, sel, value, ok) == [ev |-> ev, sel |-> sel, value |-> value, ok |-> ok]

Init ==
  /\ file \in InitFiles
  /\ kb = Empty
  /\ pc = "boot"
  /\ run = 1
  /\ aiClient \in BOOLEAN
  /\ mode \in {"hybrid", "standalone"}
  /\ url \in {BaseUrl, LoginUrl}
  /\ honored \in PageStates
  /\ flowIdx = 0
  /\ stepIdx = 0
  /\ context = None
  /\ learnedSolution = None
  /\ aiResponse = None
  /\ results = Empty
  /\ hybridStats = ZeroStats
  /\ clock = 1
  /\ trace = Empty
  /\ kb0 = Empty
  /\ stepLog = Empty
  /\ file0 = file
  /\ io = Empty
  /\ suite \in {"smoke", "regression", "nightly"}
  /\ location = Empty
  /\ proc = Running
  /\ flowsFile = InitFlows
  /\ flowsData = Category(<< >>)
  /\ tool = NoCall
  /\ fn = NoCall
  /\ bm = NoCall
  /\ loop = NoCall
  /\ ci = NoCall

\* ------------------------------------------------------------------ control
\* testSuites[config.suite] || []
flowPaths == IF suite \in DOMAIN testSuites THEN testSuites[suite] ELSE << >>

CurFlowPath == flowPaths[flowIdx]
CurFlow == getFlowByPath(CurFlowPath, flowsData)[1]
CurSteps == CurFlow.steps[1]
CurStep == CurSteps[stepIdx]

\* the selector and the value the deterministic and learned attempts use
StepSelector == convertSelector(replaceParams(CurStep.target, Params))
StepValue == replaceParams(CurStep.value, Params)

\* page.click / page.fill / page.waitForSelector with a selector
DriverHonors(selector) == selector \in honored

\* the deterministic attempt without its return
AfterDeterministic_fallthrough(ok) == "lookup"

\* where executeStepHybrid goes after the deterministic attempt
AfterDeterministic(ok) == IF ok THEN "returned" ELSE "lookup"

\* where executeStepHybrid goes after the lookup
AfterLookup(r) ==
  IF r.threw THEN "threw" ELSE IF r.sol # None THEN "learned" ELSE "ai"

\* the learned attempt tried again when it fails
AfterLearned_retry(ok) == IF ok THEN "returned" ELSE "learned"

\* where executeStepHybrid goes after the learned attempt
AfterLearned(ok) == IF ok THEN "returned" ELSE "ai"

\* a catch that goes on with the next step
ContinueAfterThrow_on == TRUE

\* executeFlow's catch: the flow is over, whatever steps are left
ContinueAfterThrow == FALSE

Log(e) == trace' = Append(trace, e)

\* a step whose end is not waited for
Finish_unawaited(outcome) == stepLog' = stepLog

\* the step is over: its console line gets its outcome
Finish(outcome) ==
  stepLog' = [stepLog EXCEPT ![Len(stepLog)].outcome = outcome]

\* executeFlow returns its result to main's loop
FlowDone(status, error) ==
  /\ results' = Append(results, [flowPath |-> CurFlowPath, status |-> status,
                                 error |-> error])
  /\ context' = None
  /\ stepIdx' = 0
  /\ IF flowIdx < Len(flowPaths)
     THEN flowIdx' = flowIdx + 1 /\ pc' = "flow"
     ELSE flowIdx' = flowIdx /\ pc' = "finally"

\* module initialisation: loadKnowledgeBase
LoadKnowledgeBase ==
  /\ pc = "boot"
  /\ LET r == loadKnowledgeBase(file)
     IN /\ kb' = r.solutions
        /\ io' = Append(io, IF r.threw THEN "read failed" ELSE "read")
        /\ pc' = IF r.threw THEN "killed" ELSE "load"
  /\ UNCHANGED << proc, location, bm, loop, ci, fn, tool, file, file0, suite, flowsFile, flowsData, run, aiClient, mode,
                  url, honored, flowIdx, stepIdx, context, learnedSolution,
                  aiResponse, results, hybridStats, clock, trace, kb0, stepLog >>

\* module initialisation: the flows file is read (flowsData = loadedFlows.flows
\* || loadedFlows)
LoadFlows ==
  /\ pc = "load"
  /\ flowsData' = flowsFile
  /\ pc' = "main"
  /\ UNCHANGED << proc, location, bm, loop, ci, fn, tool, file, file0, io, suite, flowsFile, kb, run, aiClient, mode, url,
                  honored, flowIdx, stepIdx, context, learnedSolution, aiResponse,
                  results, hybridStats, clock, trace, kb0, stepLog >>

\* main: an unknown suite raises; the browser is launched, which may raise; the
\* loop over the flows starts, or the catch of main notes the error
Main ==
  /\ pc = "main"
  /\ \E launched \in BOOLEAN :
       IF Len(flowPaths) > 0 /\ launched
       THEN /\ flowIdx' = 1 /\ pc' = "flow" /\ location' = AboutBlank
            /\ proc' = proc
       ELSE /\ flowIdx' = flowIdx /\ pc' = "finally" /\ location' = location
            /\ proc' = [proc EXCEPT !.error =
                          IF Len(flowPaths) = 0 THEN "Unknown test suite"
                          ELSE "browser launch failed"]
  /\ UNCHANGED << bm, loop, ci, fn, tool, file, file0, io, suite, flowsFile, flowsData, kb, run, aiClient,
                  mode, url, honored, stepIdx, context, learnedSolution,
                  aiResponse, results, hybridStats, clock, trace, kb0, stepLog >>

\* what generateSteps gives: an exception (network, no JSON, no steps array) or
\* the steps array of the response
GenerationOutcomes ==
  { [kind |-> "exception", steps |-> Empty],
    [kind |-> "steps", steps |-> Empty],
    [kind |-> "steps", steps |-> << Step("click", SelLogin, Empty) >>] }

\* a loop over the steps that is entered without the check of the steps
BeginSteps_unchecked(steps) ==
  IF Len(steps) = 0
  THEN FlowDone("passed", "")
  ELSE /\ context' = Some([flowPath |-> CurFlowPath, url |-> url,
                           pageType |-> classifyPage(url)])
       /\ stepIdx' = 1
       /\ pc' = "step"
       /\ UNCHANGED << flowIdx, results >>

\* executeFlow from the check of the steps on: the loop over the steps starts
BeginSteps(steps) ==
  IF Len(steps) = 0
  THEN FlowDone("failed", "Flow has no steps")
  ELSE /\ context' = Some([flowPath |-> CurFlowPath, url |-> url,
                           pageType |-> classifyPage(url)])
       /\ stepIdx' = 1
       /\ pc' = "step"
       /\ UNCHANGED << flowIdx, results >>

\* executeFlow up to its loop over the steps
ExecuteFlow ==
  /\ pc = "flow"
  /\ LET flow == getFlowByPath(CurFlowPath, flowsData)
     IN IF flow = None
        THEN /\ FlowDone("failed", "Flow not found")
             /\ UNCHANGED << flowsFile, flowsData >>
        ELSE IF flow[1].prompt # None /\ flow[1].steps = None
        THEN IF ~aiClient
             THEN /\ FlowDone("failed", "AI client required for prompt-based flows")
                  /\ UNCHANGED << flowsFile, flowsData >>
             ELSE \E g \in GenerationOutcomes : \E written \in BOOLEAN :
                    IF g.kind = "exception"
                    THEN /\ FlowDone("failed", "Failed to parse AI response")
                         /\ UNCHANGED << flowsFile, flowsData >>
                    ELSE LET node == [flow[1] EXCEPT !.steps = Some(g.steps),
                                                     !.generatedAt = Some(clock),
                                                     !.originalPrompt = flow[1].prompt]
                             data == SetNode(flowsData, Split(CurFlowPath), node)
                         IN /\ flowsData' = data
                            /\ flowsFile' = IF written THEN data ELSE flowsFile
                            /\ BeginSteps(g.steps)
        ELSE /\ UNCHANGED << flowsFile, flowsData >>
             /\ BeginSteps(IF flow[1].steps = None THEN Empty ELSE flow[1].steps[1])
  /\ UNCHANGED << proc, location, bm, loop, ci, fn, tool, file, file0, io, suite, kb, run, aiClient, mode, url, honored,
                  learnedSolution, aiResponse, hybridStats, clock, trace, kb0,
                  stepLog >>

\* the console line of the running step ("   n. action: description"), with
\* what became of the step
LogLine(outcome) ==
  [flowPath |-> CurFlowPath, number |-> stepIdx, action |-> CurStep.action,
   target |-> CurStep.target, optional |-> CurStep.optional, outcome |-> outcome]

\* a step that is entered without being counted
EnterStep_uncounted ==
  /\ hybridStats' = hybridStats
  /\ clock' = clock
  /\ trace' = Empty
  /\ kb0' = kb
  /\ learnedSolution' = None
  /\ aiResponse' = None
  /\ stepLog' = Append(stepLog, LogLine("running"))

\* executeStepHybrid is entered: lines 512-526
EnterStep ==
  /\ hybridStats' = [hybridStats EXCEPT !.totalSteps = @ + 1]
  /\ clock' = clock
  /\ trace' = Empty
  /\ kb0' = kb
  /\ learnedSolution' = None
  /\ aiResponse' = None
  /\ stepLog' = Append(stepLog, LogLine("running"))

\* only navigate is taken out of the tiers
IsDirect_navigateOnly(action) == action = "navigate"

\* the actions with special handling, done before the tiers
IsDirect(action) == action \in {"navigate", "screenshot"}

\* a step other than navigate and screenshot goes to the tiers
StepBegin ==
  /\ pc = "step"
  /\ ~IsDirect(CurStep.action)
  /\ EnterStep
  /\ pc' = "det"
  /\ UNCHANGED << proc, location, bm, loop, ci, fn, tool, file, file0, io, suite, flowsFile, flowsData, kb, run, aiClient, mode, url, honored, flowIdx, stepIdx,
                  context, results >>

\* a navigate step: page.goto, which may fail; the page changes
StepNavigate ==
  /\ pc = "step"
  /\ CurStep.action = "navigate"
  /\ \E ok \in BOOLEAN :
       IF ok
       THEN /\ honored' \in PageStates
            /\ location' = FullUrl(CurStep.target)
            /\ hybridStats' = [hybridStats EXCEPT !.totalSteps = @ + 1,
                                                  !.deterministicSuccess = @ + 1]
            /\ stepLog' = Append(stepLog, LogLine("direct"))
            /\ pc' = "returned"
       ELSE /\ honored' = honored
            /\ location' = location
            /\ hybridStats' = [hybridStats EXCEPT !.totalSteps = @ + 1]
            /\ stepLog' = Append(stepLog, LogLine("threw"))
            /\ pc' = "threw"
  /\ clock' = clock
  /\ trace' = Empty
  /\ kb0' = kb
  /\ learnedSolution' = None
  /\ aiResponse' = None
  /\ UNCHANGED << proc, bm, loop, ci, fn, tool, file, file0, io, suite, flowsFile, flowsData, kb, run, aiClient, mode, url, flowIdx, stepIdx, context,
                  results >>

\* a screenshot step: page.screenshot, which may fail
StepScreenshot ==
  /\ pc = "step"
  /\ CurStep.action = "screenshot"
  /\ \E ok \in BOOLEAN :
       /\ hybridStats' = [hybridStats EXCEPT
                            !.totalSteps = @ + 1,
                            !.deterministicSuccess = IF ok THEN @ + 1 ELSE @]
       /\ stepLog' = Append(stepLog, LogLine(IF ok THEN "direct" ELSE "threw"))
       /\ pc' = IF ok THEN "returned" ELSE "threw"
  /\ clock' = clock
  /\ trace' = Empty
  /\ kb0' = kb
  /\ learnedSolution' = None
  /\ aiResponse' = None
  /\ UNCHANGED << proc, location, bm, loop, ci, fn, tool, file, file0, io, suite, flowsFile, flowsData, kb, run, aiClient, mode, url, honored, flowIdx, stepIdx,
                  context, results >>

\* tier 1: the step's own selector
TryDeterministic ==
  /\ pc = "det"
  /\ LET ok == DriverHonors(StepSelector)
         next == AfterDeterministic(ok)
     IN /\ Log(Event("deterministic", StepSelector, StepValue, ok))
        /\ hybridStats' = [hybridStats EXCEPT
                             !.deterministicSuccess = IF ok THEN @ + 1 ELSE @]
        /\ pc' = next
        /\ IF next = "returned" THEN Finish("deterministic") ELSE stepLog' = stepLog
  /\ UNCHANGED << proc, location, bm, loop, ci, fn, tool, file, file0, io, suite, flowsFile, flowsData, kb, run, aiClient, mode, url, honored, flowIdx, stepIdx,
                  context, learnedSolution, aiResponse, results, clock, kb0 >>

\* tier 2, the lookup: findLearnedSolution
FindLearned ==
  /\ pc = "lookup"
  /\ LET r == findLearnedSolution(CurStep, context[1], kb)
         next == AfterLookup(r)
     IN /\ Log(Event("lookup", Empty, Empty, r.sol # None))
        /\ learnedSolution' = r.sol
        /\ pc' = next
        /\ IF next = "threw" THEN Finish("threw") ELSE stepLog' = stepLog
  /\ UNCHANGED << proc, location, bm, loop, ci, fn, tool, file, file0, io, suite, flowsFile, flowsData, kb, run, aiClient, mode, url, honored, flowIdx, stepIdx,
                  context, aiResponse, results, hybridStats, clock, kb0 >>

\* tier 2, the attempt with the learned selector
TryLearned ==
  /\ pc = "learned"
  /\ LET sol == learnedSolution[1]
         ok == DriverHonors(sol.learnedSelector)
         next == AfterLearned(ok)
     IN /\ Log(Event("learned", sol.learnedSelector, StepValue, ok))
        /\ kb' = IF ok THEN recordSuccess(sol.id, kb, clock)
                       ELSE recordFailure(sol.id, kb)
        /\ hybridStats' = [hybridStats EXCEPT
                             !.learnedSuccess = IF ok THEN @ + 1 ELSE @]
        /\ pc' = next
        /\ IF next = "returned" THEN Finish("learned") ELSE stepLog' = stepLog
  /\ UNCHANGED << proc, location, bm, loop, ci, fn, tool, file, file0, io, suite, flowsFile, flowsData, run, aiClient, mode, url, honored, flowIdx, stepIdx,
                  context, learnedSolution, aiResponse, results, clock, kb0 >>

\* tier 3 is not available: no AI client, or another mode
AISkipped ==
  /\ pc = "ai"
  /\ ~AIEnabled(aiClient, mode)
  /\ pc' = "threw"
  /\ Finish("threw")
  /\ UNCHANGED << proc, location, bm, loop, ci, fn, tool, file, file0, io, suite, flowsFile, flowsData, kb, run, aiClient, mode, url, honored, flowIdx, stepIdx,
                  context, learnedSolution, aiResponse, results, hybridStats,
                  clock, trace, kb0 >>

\* what executeWithAI gets before it drives the page: an exception (screenshot,
\* network, JSON.parse), a response without JSON, or a selector
OracleOutcomes ==
  { [kind |-> "exception", sel |-> Empty], [kind |-> "unparsable", sel |-> Empty] }
  \cup { [kind |-> "selector", sel |-> s] : s \in AISelectors }

\* tier 3, the call of the AI Oracle
AIOracle ==
  /\ pc = "ai"
  /\ AIEnabled(aiClient, mode)
  /\ \E o \in OracleOutcomes :
       /\ Log(Event("oracle", o.sel, Empty, o.kind = "selector"))
       /\ aiResponse' = IF o.kind = "selector" THEN Some(o.sel) ELSE None
       /\ hybridStats' = [hybridStats EXCEPT
                            !.aiCost = IF o.kind = "exception" THEN @ + 16 ELSE @]
       /\ pc' = IF o.kind = "selector" THEN "aiExec" ELSE "threw"
       /\ IF o.kind = "selector" THEN stepLog' = stepLog ELSE Finish("threw")
  /\ UNCHANGED << proc, location, bm, loop, ci, fn, tool, file, file0, io, suite, flowsFile, flowsData, kb, run, aiClient, mode, url, honored, flowIdx, stepIdx,
                  context, learnedSolution, results, clock, kb0 >>

\* tier 3, the attempt with the suggested selector (and the step's raw value)
AIExecute ==
  /\ pc = "aiExec"
  /\ LET sel == aiResponse[1]
         ok == DriverHonors(sel)
     IN /\ Log(Event("ai", sel, CurStep.value, ok))
        /\ kb' = IF ok THEN recordSolution(CurStep, sel, context[1], kb, clock)
                 ELSE kb
        /\ hybridStats' = [hybridStats EXCEPT
                             !.aiSuccess = IF ok THEN @ + 1 ELSE @,
                             !.aiCost = IF ok THEN @ + 16 ELSE @]
        /\ pc' = IF ok THEN "returned" ELSE "threw"
        /\ Finish(IF ok THEN "ai" ELSE "threw")
  /\ UNCHANGED << proc, location, bm, loop, ci, fn, tool, file, file0, io, suite, flowsFile, flowsData, run, aiClient, mode, url, honored, flowIdx, stepIdx,
                  context, learnedSolution, aiResponse, results, clock, kb0 >>

\* executeStepHybrid returned: the loop of executeFlow goes on, or the flow passed
StepReturn ==
  /\ pc = "returned"
  /\ IF stepIdx < Len(CurSteps)
     THEN /\ stepIdx' = stepIdx + 1
          /\ pc' = "step"
          /\ UNCHANGED << flowIdx, context, results >>
     ELSE FlowDone("passed", "")
  /\ UNCHANGED << proc, location, bm, loop, ci, fn, tool, file, file0, io, suite, flowsFile, flowsData, kb, run, aiClient, mode, url, honored, learnedSolution,
                  aiResponse, hybridStats, clock, trace, kb0, stepLog >>

\* executeStepHybrid threw: the catch of executeFlow
StepThrow ==
  /\ pc = "threw"
  /\ IF ContinueAfterThrow /\ stepIdx < Len(CurSteps)
     THEN /\ stepIdx' = stepIdx + 1
          /\ pc' = "step"
          /\ UNCHANGED << flowIdx, context, results >>
     ELSE FlowDone("failed", "step failed")
  /\ UNCHANGED << proc, location, bm, loop, ci, fn, tool, file, file0, io, suite, flowsFile, flowsData, kb, run, aiClient, mode, url, honored, learnedSolution,
                  aiResponse, hybridStats, clock, trace, kb0, stepLog >>

\* the finally that leaves without saving the knowledge base
Finally_nosave ==
  /\ pc = "finally"
  /\ pc' = "exited"
  /\ UNCHANGED << proc, location, bm, loop, ci, fn, tool, file, file0, io, suite, flowsFile, flowsData, kb, run, aiClient, mode, url, honored, flowIdx,
                  stepIdx, context, learnedSolution, aiResponse, results,
                  hybridStats, clock, trace, kb0, stepLog >>

\* process.exit(results.summary.failed > 0 ? 1 : 0)
ExitCode(flows) ==
  IF \E j \in 1..Len(flows) : flows[j].status = "failed" THEN 1 ELSE 0

\* main's finally: the browser is closed, the knowledge base is saved and the
\* process exits; when browser.close() raises, main rejects and the catch on
\* main() exits with 1
Finally ==
  /\ pc = "finally"
  /\ \E closed \in BOOLEAN :
       IF closed
       THEN /\ file' = saveKnowledgeBase(kb)
            /\ io' = Append(io, "write")
            /\ pc' = "exited"
            /\ proc' = [proc EXCEPT !.exitCode = Some(ExitCode(results))]
       ELSE /\ UNCHANGED << file, io >>
            /\ pc' = "killed"
            /\ proc' = [proc EXCEPT !.exitCode = Some(1)]
  /\ UNCHANGED << location, bm, loop, ci, fn, tool, file0, suite, flowsFile, flowsData, kb, run, aiClient, mode, url, honored, flowIdx, stepIdx,
                  context, learnedSolution, aiResponse, results, hybridStats,
                  clock, trace, kb0, stepLog >>

\* the runner is invoked again, with the same configuration
Restart ==
  /\ pc \in {"exited", "killed"}
  /\ run < MaxRuns
  /\ run' = run + 1
  /\ pc' = "boot"
  /\ kb' = Empty
  /\ honored' \in PageStates
  /\ flowIdx' = 0
  /\ stepIdx' = 0
  /\ context' = None
  /\ learnedSolution' = None
  /\ aiResponse' = None
  /\ results' = Empty
  /\ hybridStats' = ZeroStats
  /\ trace' = Empty
  /\ kb0' = Empty
  /\ stepLog' = Empty
  /\ file0' = file
  /\ io' = Empty
  /\ flowsData' = Category(<< >>)
  /\ clock' = clock + 1
  /\ location' = Empty
  /\ proc' = Running
  /\ UNCHANGED << bm, loop, ci, fn, tool, file, suite, flowsFile, aiClient, mode, url >>

\* the process is killed while it runs (a signal, the CI job's time limit):
\* what it held in memory is gone, the file and the console output stay
Crash ==
  /\ pc \notin {"exited", "killed", "kb"}
  /\ pc' = "killed"
  /\ kb' = Empty
  /\ flowIdx' = 0
  /\ stepIdx' = 0
  /\ context' = None
  /\ learnedSolution' = None
  /\ aiResponse' = None
  /\ results' = Empty
  /\ hybridStats' = ZeroStats
  /\ trace' = Empty
  /\ kb0' = Empty
  /\ flowsData' = Category(<< >>)
  /\ location' = Empty
  /\ UNCHANGED << proc, bm, loop, ci, fn, tool, file, file0, io, suite, flowsFile, run, aiClient, mode, url,
                  honored, clock, stepLog >>

Next ==
  \/ LoadKnowledgeBase
  \/ LoadFlows
  \/ Main
  \/ ExecuteFlow
  \/ StepBegin
  \/ StepNavigate
  \/ StepScreenshot
  \/ TryDeterministic
  \/ FindLearned
  \/ TryLearned
  \/ AISkipped
  \/ AIOracle
  \/ AIExecute
  \/ StepReturn
  \/ StepThrow
  \/ Finally
  \/ Restart
  \/ Crash

Spec == Init /\ [][Next]_vars

\* ------------------------------------------- the knowledge base on its own
\* The three mutators of the knowledge base applied in any order to a loaded
\* knowledge base (pc = "kb"); trace holds the last call, kb0 the knowledge
\* base before it, learnedSolution the entry the call found.
MaxOps == 5
MaxLen == 2

InitKB ==
  /\ file \in InitFiles
  /\ kb = loadKnowledgeBase(file).solutions
  /\ pc = "kb"
  /\ run = 1
  /\ aiClient = FALSE
  /\ mode = "hybrid"
  /\ url = BaseUrl
  /\ honored = {}
  /\ flowIdx = 0
  /\ stepIdx = 0
  /\ context = None
  /\ learnedSolution = None
  /\ aiResponse = None
  /\ results = Empty
  /\ hybridStats = ZeroStats
  /\ clock = 1
  /\ trace = Empty
  /\ kb0 = kb
  /\ stepLog = Empty
  /\ file0 = file
  /\ io = <<"read">>
  /\ suite = "smoke"
  /\ location = Empty
  /\ proc = Running
  /\ flowsFile = InitFlows
  /\ flowsData = InitFlows
  /\ tool = NoCall
  /\ fn = NoCall
  /\ bm = NoCall
  /\ loop = NoCall
  /\ ci = NoCall

KBFrame ==
  /\ clock' = clock + 1
  /\ kb0' = kb
  /\ UNCHANGED << proc, location, bm, loop, ci, fn, tool, file, file0, io, suite, flowsFile, flowsData, pc, run, aiClient, mode, url, honored, flowIdx, stepIdx,
                  context, aiResponse, results, hybridStats, stepLog >>

KBRecordSolution ==
  /\ pc = "kb"
  /\ clock <= MaxOps
  /\ \E p \in {"authentication.login", "dashboard.viewDashboard"} :
       \E i \in 1..Len(FlowSteps(flowsData, p)) :
         LET step == FlowSteps(flowsData, p)[i]
             ctx == [flowPath |-> p, url |-> url, pageType |-> classifyPage(url)]
         IN /\ step.action \notin {"navigate", "screenshot"}
            /\ kb' = recordSolution(step, AISel1, ctx, kb, clock)
            /\ learnedSolution' = None
            /\ trace' = <<Event("recordSolution", AISel1, Empty, TRUE)>>
  /\ KBFrame

KBRecordSuccess ==
  /\ pc = "kb"
  /\ clock <= MaxOps
  /\ \E id \in Ids(kb) \cup {"click-00000000"} :
       /\ kb' = recordSuccess(id, kb, clock)
       /\ learnedSolution' = MapGet(kb, id)
       /\ trace' = <<Event("recordSuccess", Empty, Empty, TRUE)>>
  /\ KBFrame

KBRecordFailure ==
  /\ pc = "kb"
  /\ clock <= MaxOps
  /\ \E id \in Ids(kb) \cup {"click-00000000"} :
       /\ kb' = recordFailure(id, kb)
       /\ learnedSolution' = MapGet(kb, id)
       /\ trace' = <<Event("recordFailure", Empty, Empty, TRUE)>>
  /\ KBFrame

NextKB == KBRecordSolution \/ KBRecordSuccess \/ KBRecordFailure

SpecKB == InitKB /\ [][NextKB]_vars

\* ------------------------------------------------- the execute_flow tool
\* One call of the tool (tool.pc = "start" .. "returned"): its inputs are the
\* flow path, the caller's params, stopOnError, takeScreenshots and the QA
\* context (flowsData holds qaContext.flows.flows, with commonParameters in
\* tool.testData and tool.testCredentials); executionLog gets one entry per
\* step that was started.

\* :first-child and :nth-child(1)
FirstChild == [k |-> "firstChild", v |-> ""]
NthChild1 == [k |-> "nthChild", v |-> "1"]

\* { ...a, ...b }
Merge(a, b) ==
  [key \in DOMAIN a \cup DOMAIN b |-> IF key \in DOMAIN b THEN b[key] ELSE a[key]]

RECURSIVE SubstituteTokens(_, _)
\* str.replace(/\{(\w+)\}/g, ...): the pattern finds {key}, also the {key} of
\* a ${key}, whose $ stays
SubstituteTokens(str, params) ==
  IF str = Empty THEN Empty
  ELSE LET t == Head(str)
           r == IF t.k \in {"brace", "dollar"} /\ t.v \in DOMAIN params
                THEN (IF t.k = "dollar" THEN <<Lit("$")>> ELSE Empty) \o params[t.v]
                ELSE <<t>>
       IN r \o SubstituteTokens(Tail(str), params)

substituteParams(str, params) == SubstituteTokens(str, params)

\* the tool's convertSelector: with a :contains('text'), what precedes the
\* first ":contains" and a has-text of the text; otherwise :first-child
\* becomes :nth-child(1)
toolConvertSelector(selector) ==
  LET isContains(i) == selector[i].k \in {"contains", "containsRaw"}
      matches == {i \in 1..Len(selector) : selector[i].k = "contains"}
  IN IF matches # {}
     THEN LET m == CHOOSE i \in matches : \A j \in matches : i <= j
              c == CHOOSE i \in 1..Len(selector) :
                     isContains(i) /\ \A j \in 1..(i - 1) : ~isContains(j)
          IN SubSeq(selector, 1, c - 1) \o <<HasText(selector[m].v)>>
     ELSE [i \in 1..Len(selector) |->
             IF selector[i].k = "firstChild" THEN NthChild1 ELSE selector[i]]

RECURSIVE ToolWalk(_, _)
\* the loop of the flow lookup: it stops at a value that is no object
ToolWalk(current, parts) ==
  IF parts = << >> \/ current = None THEN current
  ELSE ToolWalk(IF Head(parts) \in DOMAIN current[1].kids
                THEN Some(current[1].kids[Head(parts)])
                ELSE None,
                Tail(parts))

\* the parameter validation: flowParams after the defaults were tried
WithDefaults(requiredParams, flowParams, defaults) ==
  LET missing == {requiredParams[i] : i \in 1..Len(requiredParams)} \ DOMAIN flowParams
      found == {q \in missing : q \in DOMAIN defaults /\ defaults[q] # Empty}
  IN [key \in DOMAIN flowParams \cup found |->
        IF key \in DOMAIN flowParams THEN flowParams[key] ELSE defaults[key]]

\* the validation that finds nothing missing
StillMissing_none(requiredParams, flowParams) == {}

StillMissing(requiredParams, flowParams) ==
  {requiredParams[i] : i \in 1..Len(requiredParams)} \ DOMAIN flowParams

\* the paths the tool is called with
ToolPaths ==
  { "authentication.login", "dashboard.viewDashboard", "dashboard.explore",
    "authentication", "complete.endToEnd", "appointmentTypes.addAppointmentType" }

\* parameter maps of the caller and of commonParameters
ParamMaps ==
  { << >>,
    [appointmentName |-> <<Lit("Checkup")>>],
    [appointmentName |-> Empty],
    [email |-> <<Lit("qa@app.test")>>] }

ToolPageStates ==
  PageStates \cup { {SelName, convertSelector(SelLogin)}, {SelName},
                    {SelName, convertSelector(SelLogin), SelMissing} }

InitTool ==
  /\ file = File(FALSE, FALSE, FALSE, Empty)
  /\ kb = Empty
  /\ pc = "tool"
  /\ run = 1
  /\ aiClient = FALSE
  /\ mode = "hybrid"
  /\ url = BaseUrl
  /\ honored \in ToolPageStates
  /\ flowIdx = 0
  /\ stepIdx = 0
  /\ context = None
  /\ learnedSolution = None
  /\ aiResponse = None
  /\ results = Empty
  /\ hybridStats = ZeroStats
  /\ clock = 1
  /\ trace = Empty
  /\ kb0 = Empty
  /\ stepLog = Empty
  /\ file0 = file
  /\ io = Empty
  /\ suite = "smoke"
  /\ location = Empty
  /\ proc = Running
  /\ flowsFile = InitFlows
  /\ flowsData = InitFlows
  /\ fn = NoCall
  /\ bm = NoCall
  /\ loop = NoCall
  /\ ci = NoCall
  /\ \E flowPath \in ToolPaths, params \in ParamMaps, testData \in ParamMaps,
        testCredentials \in {<< >>, [appointmentName |-> <<Lit("Crown")>>]},
        stopOnError \in BOOLEAN, takeScreenshots \in BOOLEAN, loaded \in BOOLEAN :
       tool = [pc |-> "start", flowPath |-> flowPath, params |-> params,
               testData |-> testData, testCredentials |-> testCredentials,
               stopOnError |-> stopOnError, takeScreenshots |-> takeScreenshots,
               loaded |-> loaded, flowParams |-> params, flow |-> None, i |-> 0,
               failedStep |-> None, executionLog |-> Empty, screenshots |-> 0,
               title |-> ""]

ToolFrame ==
  UNCHANGED << proc, file, kb, pc, run, aiClient, mode, url, flowIdx, stepIdx, context,
               learnedSolution, aiResponse, results, hybridStats, clock, trace,
               kb0, stepLog, file0, io, suite, flowsFile, flowsData, fn, bm,
               loop, ci, location >>

\* execute, up to the loop over the steps: the QA context, the flow lookup and
\* the parameter validation
ToolExecute ==
  /\ pc = "tool"
  /\ tool.pc = "start"
  /\ LET flow == ToolWalk(Some(flowsData), Split(tool.flowPath))
         defaults == Merge(tool.testData, tool.testCredentials)
     IN IF ~tool.loaded
        THEN tool' = [tool EXCEPT !.pc = "returned", !.title = "Execute Flow - Error"]
        ELSE IF flow = None \/ flow[1].steps = None
        THEN tool' = [tool EXCEPT !.pc = "returned",
                                  !.title = "Execute Flow - Not Found"]
        ELSE LET flowParams == WithDefaults(flow[1].requiredParams, tool.flowParams,
                                            defaults)
             IN IF StillMissing(flow[1].requiredParams, flowParams) # {}
                THEN tool' = [tool EXCEPT !.pc = "returned",
                                          !.flowParams = flowParams,
                                          !.title = "Execute Flow - Missing Parameters"]
                ELSE tool' = [tool EXCEPT !.pc = "loop",
                                          !.flowParams = flowParams,
                                          !.flow = flow,
                                          !.i = 1]
  /\ honored' = honored
  /\ ToolFrame

\* whether a caught step failure ends the loop
BreakAfterFailure(stopOnError, optional) == stopOnError /\ ~optional

\* one pass of the loop over flow.steps: the action, the screenshot, and the
\* catch of what they raise
ToolStep ==
  /\ pc = "tool"
  /\ tool.pc = "loop"
  /\ tool.i <= Len(tool.flow[1].steps[1])
  /\ LET stepDef == tool.flow[1].steps[1][tool.i]
         target == substituteParams(stepDef.target, tool.flowParams)
         value == substituteParams(stepDef.value, tool.flowParams)
         selector == toolConvertSelector(target)
         last == tool.i = Len(tool.flow[1].steps[1])
     IN \E acted \in BOOLEAN, shot \in BOOLEAN :
          LET done ==
                CASE stepDef.action \in {"click", "type", "clear", "wait"} ->
                       DriverHonors(selector)
                  [] stepDef.action \in {"navigate", "verify"} -> acted
                  [] OTHER -> TRUE
              shoots == /\ tool.takeScreenshots
                        /\ stepDef.action \in {"navigate", "click", "verify"}
              ok == done /\ (shoots => shot)
              entry == [step |-> tool.i, action |-> stepDef.action,
                        optional |-> stepDef.optional, target |-> target,
                        value |-> value, selector |-> selector, ok |-> ok]
              stop == ~ok /\ BreakAfterFailure(tool.stopOnError, stepDef.optional)
          IN /\ tool' = [tool EXCEPT
                           !.executionLog = Append(@, entry),
                           !.failedStep = IF ok THEN @ ELSE Some(tool.i),
                           !.screenshots = IF done /\ shoots /\ shot THEN @ + 1 ELSE @,
                           !.i = @ + 1,
                           !.pc = IF stop \/ last THEN "done" ELSE "loop"]
             /\ IF stepDef.action = "navigate" /\ done
                THEN honored' \in ToolPageStates
                ELSE honored' = honored
  /\ ToolFrame

\* execute, after the loop: the summary and the return value
ToolReturn ==
  /\ pc = "tool"
  /\ \/ tool.pc = "done"
     \/ tool.pc = "loop" /\ tool.i > Len(tool.flow[1].steps[1])
  /\ tool' = [tool EXCEPT !.pc = "returned",
                          !.title = IF tool.failedStep = None
                                    THEN "Flow Completed" ELSE "Flow Failed"]
  /\ honored' = honored
  /\ ToolFrame

NextTool == ToolExecute \/ ToolStep \/ ToolReturn

SpecTool == InitTool /\ [][NextTool]_vars

\* ------------------------------------------------------ the string helpers
\* One call of one of the helpers that rewrite the strings of a step: the
\* parameter substitution of the hybrid runner, of the tool and of the CI
\* runner, and the selector conversion of the hybrid runner and of the tool.

RECURSIVE ReplaceFixed(_, _, _)
\* one .replace(/\{key\}/g, params.key || '') of the CI runner: the pattern
\* finds {key}, also the {key} of a ${key}, whose $ stays
ReplaceFixed(str, key, params) ==
  IF str = Empty THEN Empty
  ELSE LET t == Head(str)
           val == IF key \in DOMAIN params THEN params[key] ELSE Empty
           r == IF t.k \in {"brace", "dollar"} /\ t.v = key
                THEN (IF t.k = "dollar" THEN <<Lit("$")>> ELSE Empty) \o val
                ELSE <<t>>
       IN r \o ReplaceFixed(Tail(str), key, params)

\* replaceStepParams of the CI runner, on one field of the step
replaceStepParams(str, params) ==
  IF str = Empty THEN str
  ELSE ReplaceFixed(ReplaceFixed(ReplaceFixed(str, "email", params),
                                 "password", params),
                    "baseUrl", params)

\* the flows file in its two shapes: the mapping of the categories at the top
\* level, or under a "flows" key
TopLevelFile == InitFlows
NestedFile == Category([flows |-> InitFlows])

\* loadedFlows.flows || loadedFlows
Unwrap(loadedFlows) ==
  IF "flows" \in DOMAIN loadedFlows.kids THEN loadedFlows.kids.flows ELSE loadedFlows

\* what a lookup gives: a node, null, or a TypeError
Found(flow) == [threw |-> FALSE, flow |-> flow]
Threw == [threw |-> TRUE, flow |-> None]

\* the hybrid runner and the CI runner: the file is unwrapped, the walk starts
\* at the mapping
lookupHybrid(flowPath, loadedFlows) ==
  Found(getFlowByPath(flowPath, Unwrap(loadedFlows)))

\* the flows runner (part_002): the file is unwrapped, and the walk starts at
\* the "flows" member of the mapping; current[part] of undefined is a TypeError
lookupFlowsRunner(flowPath, loadedFlows) ==
  LET data == Unwrap(loadedFlows)
  IN IF "flows" \in DOMAIN data.kids
     THEN Found(Walk(data.kids.flows, Split(flowPath)))
     ELSE Threw

\* the tool: the walk starts at the "flows" member of the file as it was parsed
lookupTool(flowPath, loadedFlows) ==
  Found(ToolWalk(IF "flows" \in DOMAIN loadedFlows.kids
                 THEN Some(loadedFlows.kids.flows) ELSE None,
                 Split(flowPath)))

\* the tokens, the keys and the values that the helpers are called with
FnTokens ==
  { Lit("a"), Brace("email"), Dollar("email"), Brace("name"), Dollar("name"),
    Contains("Login"), FirstChild }
FnKeys == {"email", "name"}
FnValues == { Empty, <<Lit("v")>> }
FnTexts == UNION { [1..n -> FnTokens] : n \in 0..MaxLen }
FnParams == UNION { [D -> FnValues] : D \in SUBSET FnKeys }

InitFn ==
  /\ file = File(FALSE, FALSE, FALSE, Empty)
  /\ kb = Empty
  /\ pc = "fn"
  /\ run = 1
  /\ aiClient = FALSE
  /\ mode = "hybrid"
  /\ url = BaseUrl
  /\ honored = {}
  /\ flowIdx = 0
  /\ stepIdx = 0
  /\ context = None
  /\ learnedSolution = None
  /\ aiResponse = None
  /\ results = Empty
  /\ hybridStats = ZeroStats
  /\ clock = 1
  /\ trace = Empty
  /\ kb0 = Empty
  /\ stepLog = Empty
  /\ file0 = file
  /\ io = Empty
  /\ suite = "smoke"
  /\ location = Empty
  /\ proc = Running
  /\ flowsFile = InitFlows
  /\ flowsData = InitFlows
  /\ tool = NoCall
  /\ bm = NoCall
  /\ loop = NoCall
  /\ ci = NoCall
  /\ \/ \E str \in FnTexts, params \in FnParams :
          fn = [pc |-> "start", called |-> "", str |-> str, params |-> params,
                flowPath |-> "", out |-> Empty]
     \/ \E flowPath \in ToolPaths :
          fn = [pc |-> "start", called |-> "", str |-> Empty, params |-> << >>,
                flowPath |-> flowPath, out |-> Empty]

FnFrame ==
  UNCHANGED << proc, file, kb, pc, run, aiClient, mode, url, honored, flowIdx, stepIdx,
               context, learnedSolution, aiResponse, results, hybridStats, clock,
               trace, kb0, stepLog, file0, io, suite, flowsFile, flowsData, tool,
               bm, loop, ci, location >>

Returns(called, out) ==
  /\ pc = "fn"
  /\ fn.pc = "start"
  /\ fn.flowPath = ""
  /\ fn' = [fn EXCEPT !.pc = "done", !.called = called, !.out = out]
  /\ FnFrame

CallReplaceParams == Returns("replaceParams", replaceParams(fn.str, fn.params))

CallSubstituteParams ==
  Returns("substituteParams", substituteParams(fn.str, fn.params))

CallReplaceStepParams ==
  Returns("replaceStepParams", replaceStepParams(fn.str, fn.params))

CallConvertSelector == Returns("convertSelector", convertSelector(fn.str))

CallToolConvertSelector ==
  Returns("toolConvertSelector", toolConvertSelector(fn.str))

\* a lookup of fn.flowPath in the file of either shape
Resolves(called, top, nested) ==
  /\ pc = "fn"
  /\ fn.pc = "start"
  /\ fn.flowPath # ""
  /\ fn' = [fn EXCEPT !.pc = "done", !.called = called,
                      !.out = [top |-> top, nested |-> nested]]
  /\ FnFrame

CallLookupHybrid ==
  Resolves("lookupHybrid", lookupHybrid(fn.flowPath, TopLevelFile),
           lookupHybrid(fn.flowPath, NestedFile))

CallLookupFlowsRunner ==
  Resolves("lookupFlowsRunner", lookupFlowsRunner(fn.flowPath, TopLevelFile),
           lookupFlowsRunner(fn.flowPath, NestedFile))

CallLookupTool ==
  Resolves("lookupTool", lookupTool(fn.flowPath, TopLevelFile),
           lookupTool(fn.flowPath, NestedFile))

NextFn ==
  \/ CallLookupHybrid
  \/ CallLookupFlowsRunner
  \/ CallLookupTool
  \/ CallReplaceParams
  \/ CallSubstituteParams
  \/ CallReplaceStepParams
  \/ CallConvertSelector
  \/ CallToolConvertSelector

SpecFn == InitFn /\ [][NextFn]_vars

\* ---------------------------------------------------- the BrowserManager
\* The module variables browser, context and page of the BrowserManager, with
\* the browsers, contexts and pages that were created (numbered in the order
\* of their creation), the pages that are open, and the calls of getPage and
\* navigate since the page was last closed (bm.calm: the page each call got and
\* what existed after it).

MaxCalls == 6

NoBrowser ==
  [pc |-> "idle", browser |-> None, connected |-> FALSE, context |-> None,
   page |-> None, open |-> {}, ctxOf |-> {}, launched |-> 0, contexts |-> 0,
   pages |-> 0, calm |-> Empty, ops |-> 0, last |-> "", openCtx |-> {}]

\* page && !page.isClosed()
PageUsable(b) == b.page # None /\ b.page[1] \in b.open

getBrowser(b) ==
  IF b.browser # None /\ b.connected
  THEN b
  ELSE [b EXCEPT !.browser = Some(b.launched + 1), !.launched = @ + 1,
                 !.connected = TRUE]

\* a context is kept while one of its pages is open; the context that is
\* replaced is not closed
getContext(b) ==
  IF b.context # None /\ \E p \in b.open : <<p, b.context[1]>> \in b.ctxOf
  THEN b
  ELSE LET b1 == getBrowser(b)
       IN [b1 EXCEPT !.context = Some(b1.contexts + 1), !.contexts = @ + 1,
                     !.openCtx = IF b1.browser = b.browser
                                 THEN @ \cup {b1.contexts + 1}
                                 ELSE {b1.contexts + 1}]

\* a page is made also when the current one is usable
getPage_fresh(b) ==
  LET b1 == getContext(b)
  IN [b1 EXCEPT !.page = Some(b1.pages + 1), !.pages = @ + 1,
                !.open = @ \cup {b1.pages + 1},
                !.ctxOf = @ \cup {<<b1.pages + 1, b1.context[1]>>}]

getPage(b) ==
  IF PageUsable(b)
  THEN b
  ELSE LET b1 == getContext(b)
       IN [b1 EXCEPT !.page = Some(b1.pages + 1), !.pages = @ + 1,
                     !.open = @ \cup {b1.pages + 1},
                     !.ctxOf = @ \cup {<<b1.pages + 1, b1.context[1]>>}]

closePage(b) ==
  [b EXCEPT !.page = None,
            !.open = IF PageUsable(b) THEN @ \ {b.page[1]} ELSE @]

\* close: the page, the pages of the context and the browser are closed
close(b) ==
  [b EXCEPT !.page = None, !.context = None, !.browser = None,
            !.connected = FALSE,
            !.openCtx = IF b.browser # None /\ b.connected THEN {}
                        ELSE IF b.context # None THEN @ \ {b.context[1]} ELSE @,
            !.open = {p \in @ : /\ ~(PageUsable(b) /\ p = b.page[1])
                                /\ ~(b.context # None /\ <<p, b.context[1]>> \in b.ctxOf)
                                /\ ~(b.browser # None /\ b.connected)}]

\* what a call of getPage or navigate notes: the page and what exists
Noted(b) ==
  [b EXCEPT !.calm = Append(@, [page |-> b.page[1], launched |-> b.launched,
                                contexts |-> b.contexts, pages |-> b.pages])]

\* the calls since the page was closed are forgotten
Disturbed(b) == [b EXCEPT !.calm = Empty]

InitBM ==
  /\ file = File(FALSE, FALSE, FALSE, Empty)
  /\ kb = Empty
  /\ pc = "bm"
  /\ run = 1
  /\ aiClient = FALSE
  /\ mode = "hybrid"
  /\ url = BaseUrl
  /\ honored = {}
  /\ flowIdx = 0
  /\ stepIdx = 0
  /\ context = None
  /\ learnedSolution = None
  /\ aiResponse = None
  /\ results = Empty
  /\ hybridStats = ZeroStats
  /\ clock = 1
  /\ trace = Empty
  /\ kb0 = Empty
  /\ stepLog = Empty
  /\ file0 = file
  /\ io = Empty
  /\ suite = "smoke"
  /\ location = Empty
  /\ proc = Running
  /\ flowsFile = InitFlows
  /\ flowsData = InitFlows
  /\ tool = NoCall
  /\ fn = NoCall
  /\ loop = NoCall
  /\ ci = NoCall
  /\ bm = NoBrowser

BMFrame ==
  UNCHANGED << proc, file, kb, pc, run, aiClient, mode, url, honored, flowIdx, stepIdx,
               context, learnedSolution, aiResponse, results, hybridStats, clock,
               trace, kb0, stepLog, file0, io, suite, flowsFile, flowsData, tool,
               fn, loop, ci, location >>

\* one more operation on the BrowserManager
BMDoes(what, b) ==
  /\ pc = "bm"
  /\ bm.ops < MaxCalls
  /\ bm' = [b EXCEPT !.ops = bm.ops + 1, !.last = what]
  /\ BMFrame

GetPage == BMDoes("getPage", Noted(getPage(bm)))

\* navigate: getPage, then goto, which keeps the page whether it raises or not
Navigate ==
  \E ok \in BOOLEAN :
    BMDoes(IF ok THEN "navigate" ELSE "navigate raised", Noted(getPage(bm)))

ClosePage == BMDoes("closePage", Disturbed(closePage(bm)))

Close == BMDoes("close", Disturbed(close(bm)))

Reset == BMDoes("reset", Disturbed(getPage(closePage(bm))))

\* checkInactivity: close() after five idle minutes
CheckInactivity ==
  \E idle \in BOOLEAN :
    BMDoes("checkInactivity",
           IF idle /\ bm.browser # None THEN Disturbed(close(bm)) ELSE bm)

\* the page is closed from outside the BrowserManager (a script, a crash)
PageCloses ==
  /\ PageUsable(bm)
  /\ BMDoes("page closed", Disturbed([bm EXCEPT !.open = @ \ {bm.page[1]}]))

\* the browser goes away: its pages are closed with it
Disconnects ==
  /\ bm.browser # None /\ bm.connected
  /\ BMDoes("disconnected", Disturbed([bm EXCEPT !.connected = FALSE, !.open = {},
                                               !.openCtx = {}]))

NextBM ==
  \/ GetPage
  \/ Navigate
  \/ ClosePage
  \/ Close
  \/ Reset
  \/ CheckInactivity
  \/ PageCloses
  \/ Disconnects

SpecBM == InitBM /\ [][NextBM]_vars

\* ------------------------------------------- overlapping calls of getPage
\* Two calls of BrowserManager.getPage on one event loop. A call runs without
\* interruption up to its next await: chromium.launch, b.newContext or
\* ctx.newPage; the other call may run while the promise is pending. The
\* module variables are assigned when the promise resolves. bm.calls holds
\* where each call is, the browser and the context it holds in its locals,
\* and the page it returned; bm.b0 is the manager before the calls.
Callers == {1, 2}

NotCalled == [pc |-> "start", b |-> None, ctx |-> None, ret |-> None]

\* the manager as the two calls find it: unused, after closePage, after the
\* page was closed from outside, after the browser went away, after close
ManagersWithoutPage ==
  LET used == getPage(NoBrowser)
  IN { NoBrowser,
       closePage(used),
       [used EXCEPT !.open = {}],
       [used EXCEPT !.connected = FALSE, !.open = {}, !.openCtx = {}],
       close(used) }

InitRace ==
  /\ file = File(FALSE, FALSE, FALSE, Empty)
  /\ kb = Empty
  /\ pc = "race"
  /\ run = 1
  /\ aiClient = FALSE
  /\ mode = "hybrid"
  /\ url = BaseUrl
  /\ honored = {}
  /\ flowIdx = 0
  /\ stepIdx = 0
  /\ context = None
  /\ learnedSolution = None
  /\ aiResponse = None
  /\ results = Empty
  /\ hybridStats = ZeroStats
  /\ clock = 1
  /\ trace = Empty
  /\ kb0 = Empty
  /\ stepLog = Empty
  /\ file0 = file
  /\ io = Empty
  /\ suite = "smoke"
  /\ location = Empty
  /\ proc = Running
  /\ flowsFile = InitFlows
  /\ flowsData = InitFlows
  /\ tool = NoCall
  /\ fn = NoCall
  /\ loop = NoCall
  /\ ci = NoCall
  /\ \E b \in ManagersWithoutPage :
       bm = [pc |-> "race", m |-> b, b0 |-> b, calls |-> [c \in Callers |-> NotCalled]]

\* a step of call c: the manager and the call after it
RaceDoes(c, m, call) ==
  /\ pc = "race"
  /\ bm' = [bm EXCEPT !.m = m, !.calls[c] = call]
  /\ BMFrame

\* getPage is called: it returns the page, or goes through getContext and
\* getBrowser up to the first await
CallGetPage(c) ==
  LET m == bm.m
      call == bm.calls[c]
  IN /\ pc = "race"
     /\ call.pc = "start"
     /\ RaceDoes(c, m,
          IF PageUsable(m)
          THEN [call EXCEPT !.pc = "done", !.ret = m.page]
          ELSE IF m.context # None /\ \E p \in m.open : <<p, m.context[1]>> \in m.ctxOf
          THEN [call EXCEPT !.pc = "newPage", !.ctx = m.context]
          ELSE IF m.browser # None /\ m.connected
          THEN [call EXCEPT !.pc = "newContext", !.b = m.browser]
          ELSE [call EXCEPT !.pc = "launching"])

\* chromium.launch resolves: browser is assigned, getBrowser returns it and
\* getContext asks it for a context
LaunchResolves(c) ==
  LET m == bm.m
      call == bm.calls[c]
  IN /\ pc = "race"
     /\ call.pc = "launching"
     /\ RaceDoes(c, [m EXCEPT !.browser = Some(m.launched + 1), !.launched = @ + 1,
                              !.connected = TRUE],
                 [call EXCEPT !.pc = "newContext", !.b = Some(m.launched + 1)])

\* b.newContext resolves: context is assigned, getContext returns it and
\* getPage asks it for a page
ContextResolves(c) ==
  LET m == bm.m
      call == bm.calls[c]
  IN /\ pc = "race"
     /\ call.pc = "newContext"
     /\ RaceDoes(c, [m EXCEPT !.context = Some(m.contexts + 1), !.contexts = @ + 1,
                              !.openCtx = @ \cup {m.contexts + 1}],
                 [call EXCEPT !.pc = "newPage", !.ctx = Some(m.contexts + 1)])

\* ctx.newPage resolves: page is assigned and getPage returns it
PageResolves(c) ==
  LET m == bm.m
      call == bm.calls[c]
  IN /\ pc = "race"
     /\ call.pc = "newPage"
     /\ RaceDoes(c, [m EXCEPT !.page = Some(m.pages + 1), !.pages = @ + 1,
                              !.open = @ \cup {m.pages + 1},
                              !.ctxOf = @ \cup {<<m.pages + 1, call.ctx[1]>>}],
                 [call EXCEPT !.pc = "done", !.ret = Some(m.pages + 1)])

NextRace ==
  \E c \in Callers :
    \/ CallGetPage(c)
    \/ LaunchResolves(c)
    \/ ContextResolves(c)
    \/ PageResolves(c)

SpecRace == InitRace /\ [][NextRace]_vars

\* ------------------------------------------------- the cached QA context
\* load_qa_context.ts: contextCache, the module variable that load_qa_context
\* fills and execute_flow reads through getQAContext. tool.disk is what the
\* two directories hold, tool.last the last call: its arguments, the cache
\* it found, the files it read, its title and the steps it executed.

\* a file: it cannot be read, its text is not JSON, its text is the JSON
\* value null, or it is a JSON object
FileKinds == {"unreadable", "invalid", "null", "object"}

Directories == {"A", "B"}

\* JSON.parse(await fs.readFile(...)): the value, or nothing when either raises
ParseFile(kind, directory) ==
  IF kind \in {"unreadable", "invalid"} THEN None
  ELSE Some([kind |-> kind, from |-> directory])

\* the summary of a loaded context reads anchorPoints.metadata and
\* flows.metadata: a TypeError when the value is null
SummaryRaises(anchorPoints, flows) ==
  anchorPoints.kind = "null" \/ flows.kind = "null"

\* LoadQAContextTool.execute: the cache after the call, the title returned
\* ("raised" when the call raises) and the number of files read
loadQAContext(cache, disk, directory, reload) ==
  IF cache # None /\ ~reload
  THEN [cache |-> cache, reads |-> 0,
        title |-> IF cache[1].anchorPoints.kind = "null" \/ cache[1].flows.kind = "null"
                  THEN "raised" ELSE "QA Context (Cached)"]
  ELSE IF directory = ""
  THEN [cache |-> cache, reads |-> 0, title |-> "Load QA Context - Error"]
  ELSE LET anchorPoints == ParseFile(disk[directory].anchorPoints, directory)
           flows == ParseFile(disk[directory].flows, directory)
       IN IF anchorPoints = None
          THEN [cache |-> cache, reads |-> 1, title |-> "Load QA Context - Error"]
          ELSE IF flows = None
          THEN [cache |-> cache, reads |-> 2, title |-> "Load QA Context - Error"]
          ELSE [cache |-> Some([anchorPoints |-> anchorPoints[1], flows |-> flows[1],
                                loadedFrom |-> directory]),
                reads |-> 2,
                title |-> IF SummaryRaises(anchorPoints[1], flows[1])
                          THEN "Load QA Context - Error" ELSE "QA Context Loaded"]

InitCtx ==
  /\ file = File(FALSE, FALSE, FALSE, Empty)
  /\ kb = Empty
  /\ pc = "ctx"
  /\ run = 1
  /\ aiClient = FALSE
  /\ mode = "hybrid"
  /\ url = BaseUrl
  /\ honored = {}
  /\ flowIdx = 0
  /\ stepIdx = 0
  /\ context = None
  /\ learnedSolution = None
  /\ aiResponse = None
  /\ results = Empty
  /\ hybridStats = ZeroStats
  /\ clock = 1
  /\ trace = Empty
  /\ kb0 = Empty
  /\ stepLog = Empty
  /\ file0 = file
  /\ io = Empty
  /\ suite = "smoke"
  /\ location = Empty
  /\ proc = Running
  /\ flowsFile = InitFlows
  /\ flowsData = InitFlows
  /\ fn = NoCall
  /\ bm = NoCall
  /\ loop = NoCall
  /\ ci = NoCall
  /\ \E a \in FileKinds, f \in FileKinds :
       tool = [pc |-> "ctx", contextCache |-> None, calls |-> 0,
               disk |-> [d \in Directories |->
                          IF d = "A" THEN [anchorPoints |-> "object", flows |-> "object"]
                          ELSE [anchorPoints |-> a, flows |-> f]],
               last |-> [name |-> "", reload |-> FALSE, before |-> None, reads |-> 0,
                         title |-> "", steps |-> 0]]

\* one more tool call of the session
CtxDoes(cache, last) ==
  /\ pc = "ctx"
  /\ tool.calls < MaxCalls
  /\ tool' = [tool EXCEPT !.contextCache = cache, !.calls = @ + 1, !.last = last]
  /\ honored' = honored
  /\ ToolFrame

\* a call of load_qa_context, with a directory or without one
LoadQAContext ==
  \E directory \in Directories \cup {""}, reload \in BOOLEAN :
    LET r == loadQAContext(tool.contextCache, tool.disk, directory, reload)
    IN CtxDoes(r.cache, [name |-> "load_qa_context", reload |-> reload,
                         before |-> tool.contextCache, reads |-> r.reads,
                         title |-> r.title, steps |-> 0])

\* a call of execute_flow: without a context it returns the error; with one
\* it goes on to the flow, whose steps it may execute
ExecuteFlowCall ==
  \E steps \in 0..2 :
    /\ tool.contextCache = None => steps = 0
    /\ CtxDoes(tool.contextCache,
               [name |-> "execute_flow", reload |-> FALSE,
                before |-> tool.contextCache, reads |-> 0,
                title |-> IF tool.contextCache = None THEN "Execute Flow - Error"
                          ELSE IF tool.contextCache[1].flows.kind = "null"
                          THEN "raised" ELSE "Flow Completed",
                steps |-> IF tool.contextCache # None
                             /\ tool.contextCache[1].flows.kind = "null"
                          THEN 0 ELSE steps])

\* clearQAContext
ClearQAContext ==
  CtxDoes(None, [name |-> "clearQAContext", reload |-> FALSE,
                 before |-> tool.contextCache, reads |-> 0, title |-> "", steps |-> 0])

\* a file of directory B is replaced between two calls
FileChanges ==
  /\ pc = "ctx"
  /\ \E which \in {"anchorPoints", "flows"}, kind \in FileKinds :
       /\ tool.disk["B"][which] # kind
       /\ tool' = [tool EXCEPT !.disk["B"][which] = kind]
  /\ tool.calls < MaxCalls
  /\ honored' = honored
  /\ ToolFrame

NextCtx ==
  \/ LoadQAContext
  \/ ExecuteFlowCall
  \/ ClearQAContext
  \/ FileChanges

SpecCtx == InitCtx /\ [][NextCtx]_vars

\* ------------------------------------------------- the AI-driven test loops
\* executeAITest of the 100% AI runner and executeTest of the unified runner:
\* one screenshot, one request to the model and one action per iteration.
\* loop.asked holds the action types the model returned, loop.aiCalls the
\* requests made, loop.actions the calls of executeAction and loop.failed
\* those that raised.

MaxStepsArg == 3

\* the action types the model answers with that matter to the loop
ActionTypes == {"click", "complete"}

\* an off-by-one loop condition
LoopGoesOn_le(runner, testComplete, stepNumber, maxSteps) ==
  (runner = "unified" \/ ~testComplete) /\ stepNumber <= maxSteps

\* while (!testComplete && stepNumber < config.maxSteps), and in the unified
\* runner while (stepNumber < config.maxSteps)
LoopGoesOn(runner, testComplete, stepNumber, maxSteps) ==
  (runner = "unified" \/ ~testComplete) /\ stepNumber < maxSteps

InitLoop ==
  /\ file = File(FALSE, FALSE, FALSE, Empty)
  /\ kb = Empty
  /\ pc = "loop"
  /\ run = 1
  /\ aiClient = TRUE
  /\ mode = "ai"
  /\ url = BaseUrl
  /\ honored = {}
  /\ flowIdx = 0
  /\ stepIdx = 0
  /\ context = None
  /\ learnedSolution = None
  /\ aiResponse = None
  /\ results = Empty
  /\ hybridStats = ZeroStats
  /\ clock = 1
  /\ trace = Empty
  /\ kb0 = Empty
  /\ stepLog = Empty
  /\ file0 = file
  /\ io = Empty
  /\ suite = "smoke"
  /\ location = Empty
  /\ proc = Running
  /\ flowsFile = InitFlows
  /\ flowsData = InitFlows
  /\ tool = NoCall
  /\ fn = NoCall
  /\ bm = NoCall
  /\ ci = NoCall
  /\ \E runner \in {"ai", "unified"}, maxSteps \in 0..MaxStepsArg :
       loop = [pc |-> "while", runner |-> runner, maxSteps |-> maxSteps,
               stepNumber |-> 0, testComplete |-> FALSE, asked |-> Empty,
               aiCalls |-> 0, actions |-> 0, failed |-> 0, success |-> FALSE,
               closed |-> FALSE, report |-> FALSE, exitCode |-> None]

LoopFrame ==
  UNCHANGED << proc, file, kb, pc, run, aiClient, mode, url, honored, flowIdx, stepIdx,
               context, learnedSolution, aiResponse, results, hybridStats, clock,
               trace, kb0, stepLog, file0, io, suite, flowsFile, flowsData, tool,
               fn, bm, ci, location >>

\* the loop condition, and stepNumber++
LoopWhile ==
  /\ pc = "loop"
  /\ loop.pc = "while"
  /\ loop' = IF LoopGoesOn(loop.runner, loop.testComplete, loop.stepNumber,
                           loop.maxSteps)
             THEN [loop EXCEPT !.stepNumber = @ + 1, !.pc = "capture"]
             ELSE [loop EXCEPT !.pc = "returned"]
  /\ LoopFrame

\* the screenshot and the page context, which may raise
LoopCapture ==
  /\ pc = "loop"
  /\ loop.pc = "capture"
  /\ \E ok \in BOOLEAN :
       loop' = [loop EXCEPT !.pc = IF ok THEN "ask" ELSE "threw"]
  /\ LoopFrame

\* anthropic.messages.create and parseAIResponse: the request raises, the
\* answer is not an action, or it is one
LoopAsk ==
  /\ pc = "loop"
  /\ loop.pc = "ask"
  /\ \E answer \in {"exception", "unparsable"} \cup ActionTypes :
       loop' = IF answer \in ActionTypes
               THEN [loop EXCEPT !.aiCalls = @ + 1, !.asked = Append(@, answer),
                                 !.pc = "act"]
               ELSE [loop EXCEPT !.aiCalls = @ + 1, !.pc = "threw"]
  /\ LoopFrame

\* executeAction in its try: a complete action does nothing and ends the loop,
\* another action may raise, and the loop goes on either way
LoopAct ==
  /\ pc = "loop"
  /\ loop.pc = "act"
  /\ \E ok \in BOOLEAN :
       LET type == loop.asked[Len(loop.asked)]
       IN /\ type = "complete" => ok
          /\ loop' = IF ~ok
                     THEN [loop EXCEPT !.actions = @ + 1, !.failed = @ + 1,
                                       !.pc = "while"]
                     ELSE IF type = "complete"
                     THEN [loop EXCEPT !.actions = @ + 1, !.testComplete = TRUE,
                                       !.pc = "returned"]
                     ELSE [loop EXCEPT !.actions = @ + 1, !.pc = "while"]
  /\ LoopFrame

\* main after executeAITest / executeTest returned: the success message
LoopReturns ==
  /\ pc = "loop"
  /\ loop.pc = "returned"
  /\ loop' = [loop EXCEPT !.success = TRUE, !.pc = "finally"]
  /\ LoopFrame

\* main's catch: the error screenshot, then process.exit(1), which ends the
\* process there
LoopCatch ==
  /\ pc = "loop"
  /\ loop.pc = "threw"
  /\ loop' = [loop EXCEPT !.exitCode = Some(1), !.pc = "exited"]
  /\ LoopFrame

\* main's finally: browser.close(), generateReport, printSummary, and main
\* returns, so that the process ends with code 0
LoopFinally ==
  /\ pc = "loop"
  /\ loop.pc = "finally"
  /\ loop' = [loop EXCEPT !.closed = TRUE, !.report = TRUE,
                          !.exitCode = Some(0), !.pc = "exited"]
  /\ LoopFrame

NextLoop ==
  \/ LoopWhile
  \/ LoopCapture
  \/ LoopAsk
  \/ LoopAct
  \/ LoopReturns
  \/ LoopCatch
  \/ LoopFinally

SpecLoop == InitLoop /\ [][NextLoop]_vars

\* ------------------------------------------------- the CI hybrid runner
\* run-qa-ci-hybrid.cjs: the steps of a flow go through executeDeterministicStep,
\* tryLearnedSolution and tryAiFallback; solutions.json is an array that
\* saveLearnedSolution appends to. ci.log has one entry per step: whether a
\* usable solution was in the file when the step began, and how the step ended.

SelOther == <<Lit("#other")>>

\* the steps of the flow that the CI runner executes
CISteps ==
  << Step("click", SelMissing, Empty), Step("click", SelOther, Empty),
     Step("fill", SelEmail, <<Lit("a")>>) >>

CISolution(action, orig, learned, conf) ==
  [stepAction |-> action, originalSelector |-> orig, learnedSelector |-> learned,
   confidence |-> conf, successCount |-> 1, failureCount |-> 0]

\* solutions.json as the run finds it: absent, or with a solution of an
\* earlier run that was used since
CIFiles ==
  { [exists |-> FALSE, solutions |-> Empty],
    [exists |-> TRUE, solutions |-> Empty],
    [exists |-> TRUE,
     solutions |-> << CISolution("fill", SelEmail, AISel2, 75) >>] }

\* s.confidence > 0.7
Trusted(confidence) == confidence > 70

\* knowledge.solutions.find(...): the index of the first trusted solution of
\* the action, or 0
findSolution(solutions, action) ==
  LET hits == {i \in 1..Len(solutions) :
                 solutions[i].stepAction = action /\ Trusted(solutions[i].confidence)}
  IN IF hits = {} THEN 0 ELSE CHOOSE i \in hits : \A j \in hits : i <= j

\* saveLearnedSolution: the file with one more solution
saveLearnedSolution(f, step, learnedSelector) ==
  [exists |-> TRUE,
   solutions |-> Append(f.solutions,
                        CISolution(step.action, step.target, learnedSelector, 70))]

\* whether the file holds a solution that saveLearnedSolution wrote for the
\* action and whose selector the page honors
Usable(f, action, page) ==
  \E i \in 1..Len(f.solutions) :
    /\ f.solutions[i].stepAction = action
    /\ f.solutions[i].learnedSelector \in page

InitCI ==
  /\ file = File(FALSE, FALSE, FALSE, Empty)
  /\ kb = Empty
  /\ pc = "ci"
  /\ run = 1
  /\ aiClient \in BOOLEAN
  /\ mode = "hybrid"
  /\ url = BaseUrl
  /\ honored \in SUBSET (AISelectors \cup {SelMissing})
  /\ flowIdx = 0
  /\ stepIdx = 0
  /\ context = None
  /\ learnedSolution = None
  /\ aiResponse = None
  /\ results = Empty
  /\ hybridStats = ZeroStats
  /\ clock = 1
  /\ trace = Empty
  /\ kb0 = Empty
  /\ stepLog = Empty
  /\ file0 = file
  /\ io = Empty
  /\ suite = "smoke"
  /\ location = Empty
  /\ proc = Running
  /\ flowsFile = InitFlows
  /\ flowsData = InitFlows
  /\ tool = NoCall
  /\ fn = NoCall
  /\ bm = NoCall
  /\ loop = NoCall
  /\ \E f \in CIFiles :
       ci = [pc |-> "deterministic", i |-> 1, file |-> f, log |-> Empty,
             usable |-> Usable(f, CISteps[1].action, honored), aiCalls |-> 0,
             closed |-> FALSE, reports |-> FALSE, exitCode |-> None]

CIFrame ==
  UNCHANGED << proc, file, kb, pc, run, aiClient, mode, url, honored, flowIdx, stepIdx,
               context, learnedSolution, aiResponse, results, hybridStats, clock,
               trace, kb0, stepLog, file0, io, suite, flowsFile, flowsData, tool,
               fn, bm, loop, location >>

\* the step ended: the loop goes to the next step, or the run is over
CIStepEnds(c, outcome) ==
  LET logged == [c EXCEPT !.log = Append(@, [action |-> CISteps[c.i].action,
                                             usable |-> c.usable,
                                             outcome |-> outcome])]
  IN IF outcome = "failed"
     THEN [logged EXCEPT !.pc = "threw"]
     ELSE IF c.i < Len(CISteps)
     THEN [logged EXCEPT !.i = @ + 1, !.pc = "deterministic",
                         !.usable = Usable(c.file, CISteps[c.i + 1].action, honored)]
     ELSE [logged EXCEPT !.pc = "done"]

\* executeDeterministicStep with the step's own selector
CIDeterministic ==
  /\ pc = "ci"
  /\ ci.pc = "deterministic"
  /\ ci' = IF CISteps[ci.i].target \in honored
           THEN CIStepEnds(ci, "deterministic")
           ELSE [ci EXCEPT !.pc = "learned"]
  /\ CIFrame

\* tryLearnedSolution
CITryLearned ==
  /\ pc = "ci"
  /\ ci.pc = "learned"
  /\ LET k == IF ci.file.exists
              THEN findSolution(ci.file.solutions, CISteps[ci.i].action) ELSE 0
     IN ci' = IF k # 0 /\ ci.file.solutions[k].learnedSelector \in honored
              THEN CIStepEnds(
                     [ci EXCEPT !.file.solutions[k].successCount = @ + 1,
                                !.file.solutions[k].confidence = Min(99, @ + 5)],
                     "learned")
              ELSE [ci EXCEPT !.pc = "ai"]
  /\ CIFrame

\* tryAiFallback: without a client nothing is tried; the request may raise;
\* a selector that works is saved
CITryAi ==
  /\ pc = "ci"
  /\ ci.pc = "ai"
  /\ IF ~aiClient
     THEN ci' = CIStepEnds(ci, "failed")
     ELSE \E o \in OracleOutcomes :
            ci' = IF o.kind = "selector" /\ o.sel \in honored
                  THEN CIStepEnds(
                         [ci EXCEPT !.aiCalls = @ + 1,
                                    !.file = saveLearnedSolution(@, CISteps[ci.i], o.sel)],
                         "ai")
                  ELSE CIStepEnds([ci EXCEPT !.aiCalls = @ + 1], "failed")
  /\ CIFrame

\* main's catch: stats.failures++ and process.exit(1), which ends the process
\* there
CICatch ==
  /\ pc = "ci"
  /\ ci.pc = "threw"
  /\ ci' = [ci EXCEPT !.exitCode = Some(1), !.pc = "exited"]
  /\ CIFrame

\* main's finally: browser.close(), generateReports, printSummary and
\* process.exit(stats.failures > 0 ? 1 : 0)
CIFinally ==
  /\ pc = "ci"
  /\ ci.pc = "done"
  /\ ci' = [ci EXCEPT !.closed = TRUE, !.reports = TRUE,
                      !.exitCode =
                        Some(IF \E j \in 1..Len(ci.log) :
                                  ci.log[j].outcome = "failed"
                             THEN 1 ELSE 0),
                      !.pc = "exited"]
  /\ CIFrame

NextCI ==
  \/ CIDeterministic
  \/ CITryLearned
  \/ CITryAi
  \/ CICatch
  \/ CIFinally

SpecCI == InitCI /\ [][NextCI]_vars

\* ------------------------------------------------------------------ claims
Last(q) == q[Len(q)]
TierEvents == {"deterministic", "learned", "ai"}
InStep == pc \in {"det", "lookup", "learned", "ai", "aiExec", "returned", "threw"}
Count(ev) == Cardinality({j \in 1..Len(trace) : trace[j].ev = ev})
Resolved == \E j \in 1..Len(trace) : trace[j].ev \in TierEvents /\ trace[j].ok

\* C1: the events of a step come in the order deterministic, lookup, learned,
\* oracle, ai; the lookup follows a failed deterministic attempt, the learned
\* attempt a lookup that found a solution, the AI Oracle is called only after
\* the lookup found nothing or the learned attempt failed and only with an AI
\* client, and nothing follows an attempt that succeeded.
InvC1 ==
  \A j \in 1..Len(trace) :
    LET e == trace[j]
    IN /\ (j = 1) = (e.ev = "deterministic")
       /\ e.ev = "lookup" => j = 2 /\ ~trace[1].ok
       /\ e.ev = "learned" => j = 3 /\ trace[2].ev = "lookup" /\ trace[2].ok
       /\ e.ev = "oracle" =>
            /\ aiClient
            /\ ~trace[1].ok
            /\ \/ j = 3 /\ trace[2].ev = "lookup" /\ ~trace[2].ok
               \/ j = 4 /\ trace[3].ev = "learned" /\ ~trace[3].ok
       /\ e.ev = "ai" => j > 1 /\ trace[j - 1].ev = "oracle" /\ trace[j - 1].ok
       /\ (e.ev \in TierEvents /\ e.ok) => j = Len(trace)

\* all three tiers were tried in one step, and the AI tier resolved it
WitC1 ==
  /\ pc = "returned"
  /\ Len(trace) = 5
  /\ trace[3].ev = "learned"
  /\ trace[5].ev = "ai" /\ trace[5].ok

\* C2: a step whose solution the AI tier recorded in an earlier run (the entry
\* under the step's key was saved and reloaded), executed again on the same
\* page type with its own selector failing and the learned selector still
\* honored, is resolved by the learned tier and the AI Oracle is not called.
InvC2 ==
  (pc \in {"returned", "threw"} /\ trace # Empty /\ ~trace[1].ok) =>
    LET e == MapGet(kb0, generateKey(CurStep))
    IN (/\ e # None
        /\ e[1].learnedAt > 0
        /\ \E i \in 1..Len(file.solutions) : file.solutions[i] = e[1]
        /\ e[1].pageContext # None
        /\ e[1].pageContext[1].pageType = context[1].pageType
        /\ DriverHonors(e[1].learnedSelector))
       => /\ Last(stepLog).outcome = "learned"
          /\ Count("oracle") = 0

\* C3: what the lookup returns is the entry under the step's key with
\* confidence above 0.8, or else the first entry, in the order of the map, of
\* the step's action and the context's page type with confidence above 0.75.
Similar(s) ==
  /\ s.stepAction = CurStep.action
  /\ s.pageContext # None
  /\ s.pageContext[1].pageType = context[1].pageType
  /\ s.confidence > 75

InvC3 ==
  (pc = "learned" /\ Len(trace) = 2) =>
    LET s == learnedSolution[1]
        key == CurStep.action \o "-" \o Md5Prefix(CurStep.target)
    IN \E i \in 1..Len(kb) :
         /\ kb[i] = s
         /\ \/ s.id = key /\ s.confidence > 80
            \/ /\ ~ \E j \in 1..Len(kb) : kb[j].id = key /\ kb[j].confidence > 80
               /\ Similar(s)
               /\ \A j \in 1..(i - 1) : ~Similar(kb[j])

\* the lookup passed over an entry of confidence exactly 0.75 and returned a
\* later one by the scan
WitC3 ==
  /\ pc = "learned"
  /\ Len(trace) = 2
  /\ \E i \in 1..Len(kb) :
       /\ kb[i] = learnedSolution[1]
       /\ i > 1
       /\ kb[1].stepAction = CurStep.action
       /\ kb[1].confidence = 75
       /\ kb[i].id # generateKey(CurStep)

\* C4: every solution of the knowledge base has a confidence within
\* [0.3, 0.99], and a solution that a failure brought below 0.4 is no longer
\* in the knowledge base.
InvC4 ==
  /\ \A i \in 1..Len(kb) : kb[i].confidence >= 30 /\ kb[i].confidence <= 99
  /\ (trace # Empty /\ trace[1].ev = "recordFailure" /\ learnedSolution # None
        /\ learnedSolution[1].confidence - 10 < 40)
       => learnedSolution[1].id \notin Ids(kb)
  /\ \A i \in 1..Len(kb) : kb[i].failureCount > 0 => kb[i].confidence >= 40

\* a failure brought a solution below 0.4
WitC4 ==
  /\ pc = "kb"
  /\ trace # Empty /\ trace[1].ev = "recordFailure"
  /\ learnedSolution # None
  /\ learnedSolution[1].confidence = 40
  /\ learnedSolution[1].id \notin Ids(kb)

\* C5: a step that the deterministic attempt resolved made no lookup and left
\* the knowledge base as it found it.
InvC5 ==
  (InStep /\ trace # Empty /\ trace[1].ev = "deterministic" /\ trace[1].ok) =>
    /\ Count("lookup") = 0
    /\ kb = kb0

\* the deterministic attempt succeeded while the knowledge base held a
\* solution for the step's key
WitC5 ==
  /\ pc = "returned"
  /\ trace # Empty /\ trace[1].ev = "deterministic" /\ trace[1].ok
  /\ MapGet(kb, generateKey(CurStep)) # None

\* C6: after the AI tier resolved a step, the knowledge base holds under the
\* step's key an entry with the suggested selector, confidence 0.7,
\* successCount 1 and failureCount 0.
InvC6 ==
  (pc = "returned" /\ trace # Empty /\ Last(trace).ev = "ai" /\ Last(trace).ok) =>
    LET key == CurStep.action \o "-" \o Md5Prefix(CurStep.target)
    IN \E i \in 1..Len(kb) :
         /\ kb[i].id = key
         /\ kb[i].learnedSelector = Last(trace).sel
         /\ kb[i].confidence = 70
         /\ kb[i].successCount = 1
         /\ kb[i].failureCount = 0

\* the AI tier resolved a step whose key already had an entry, with another
\* selector and a failure counted
WitC6 ==
  /\ pc = "returned"
  /\ trace # Empty /\ Last(trace).ev = "ai" /\ Last(trace).ok
  /\ LET e == MapGet(kb0, generateKey(CurStep))
     IN e # None /\ e[1].learnedSelector # Last(trace).sel

\* C7: after a failed deterministic attempt and a lookup that found a solution
\* of confidence c: when the driver honors the learned selector the step is
\* resolved by the learned tier, the solution is still there with successCount
\* one higher and confidence min(0.99, c + 0.02), and a flow all of whose steps
\* returned is passed; when the driver rejects it, failureCount is one higher
\* and confidence is max(0.3, c - 0.1).
FlowLog(path) == SelectSeq(stepLog, LAMBDA l : l.flowPath = path)

InvC7 ==
  /\ (InStep /\ Len(trace) = 3 /\ trace[3].ev = "learned") =>
       LET c == learnedSolution[1]
           e == MapGet(kb, c.id)
       IN IF trace[3].ok
          THEN /\ pc = "returned"
               /\ Last(stepLog).outcome = "learned"
               /\ e # None
               /\ e[1].successCount = c.successCount + 1
               /\ e[1].confidence = (IF c.confidence + 2 > 99 THEN 99
                                     ELSE c.confidence + 2)
               /\ e[1].failureCount = c.failureCount
          ELSE /\ pc \in {"ai", "threw"}
               /\ e # None
               /\ e[1].failureCount = c.failureCount + 1
               /\ e[1].confidence = (IF c.confidence - 10 < 30 THEN 30
                                     ELSE c.confidence - 10)
               /\ e[1].successCount = c.successCount
  /\ \A i \in 1..Len(results) :
       LET log == FlowLog(results[i].flowPath)
       IN (/\ \E j \in 1..Len(log) : log[j].outcome = "learned"
           /\ \A j \in 1..Len(log) : log[j].outcome # "threw")
          => results[i].status = "passed"

\* a flow passed with a step resolved by the learned tier (its solution at the
\* cap), and the learned attempt of a later step was just rejected
WitC7 ==
  /\ pc = "ai"
  /\ Len(trace) = 3 /\ trace[3].ev = "learned" /\ ~trace[3].ok
  /\ \E i \in 1..Len(results) :
       /\ results[i].status = "passed"
       /\ \E j \in 1..Len(stepLog) :
            stepLog[j].flowPath = results[i].flowPath /\ stepLog[j].outcome = "learned"
  /\ \E i \in 1..Len(kb) : kb[i].confidence = 99 /\ kb[i].successCount = 2

\* C8: a step none of whose tiers succeeded raises an error and has added no
\* entry to the knowledge base; no step of a flow follows a step that raised,
\* and the flow of a step that raised is failed.
InvC8 ==
  /\ (InStep /\ trace # Empty /\ Last(stepLog).outcome # "running" /\ ~Resolved) =>
       /\ pc = "threw"
       /\ Last(stepLog).outcome = "threw"
       /\ Ids(kb) \subseteq Ids(kb0)
  /\ \A i \in 1..Len(stepLog) : \A j \in 1..Len(stepLog) :
       (i < j /\ stepLog[i].flowPath = stepLog[j].flowPath)
         => stepLog[i].outcome # "threw"
  /\ \A i \in 1..Len(results) :
       (\E j \in 1..Len(stepLog) :
          stepLog[j].flowPath = results[i].flowPath /\ stepLog[j].outcome = "threw")
         => results[i].status = "failed"

\* the second of three steps raised after the AI tier failed, and the flow is
\* over, failed, with its third step never started
WitC8 ==
  /\ pc = "flow"
  /\ Len(results) = 1
  /\ results[1].status = "failed"
  /\ Len(stepLog) = 2
  /\ stepLog[2].outcome = "threw"
  /\ Count("oracle") = 1
  /\ Len(FlowSteps(flowsData, results[1].flowPath)) = 3

\* C9: a step raises an error only after every available tier was tried: its
\* own selector, the lookup, the learned selector if the lookup found one,
\* and the AI Oracle if the AI tier is available.
InvC9 ==
  (pc = "threw" /\ trace # Empty) =>
    /\ trace[1].ev = "deterministic" /\ ~trace[1].ok
    /\ Count("lookup") = 1
    /\ (learnedSolution # None => Count("learned") = 1)
    /\ (AIEnabled(aiClient, mode) => Count("oracle") = 1)

\* C10: in one execution of a step the driver is invoked at most once with
\* the step's own selector, at most once with a learned selector and at most
\* once with a suggested selector, and the AI Oracle and the lookup are
\* called at most once.
InvC10 ==
  \A ev \in {"deterministic", "lookup", "learned", "oracle", "ai"} : Count(ev) <= 1

\* the learned attempt failed and the AI Oracle then failed too
WitC10 ==
  /\ pc = "threw"
  /\ Len(trace) = 4
  /\ trace[3].ev = "learned" /\ ~trace[3].ok
  /\ trace[4].ev = "oracle" /\ ~trace[4].ok

\* C11: a solution that the driver rejected every time the learned tier tried
\* it is not retained: once nothing tries it any more (its confidence is at
\* most 0.75, so that no lookup returns it), it is gone from the knowledge
\* base that the run leaves behind.
Dormant(e) ==
  /\ e.failureCount > 0
  /\ e.successCount = 1
  /\ e.confidence <= SimilarThreshold

InvC11 ==
  pc = "exited" => \A i \in 1..Len(file.solutions) : ~Dormant(file.solutions[i])

\* C12: a process reads solutions.json once, when it starts, and writes it
\* once, in main's finally after the flows; until then the file is as the
\* process found it, so that a process that dies before leaves it without the
\* solutions learned in the run.
InvC12 ==
  /\ io \in {Empty, <<"read">>, <<"read", "write">>}
  /\ (pc \notin {"boot", "killed"}) => io # Empty
  /\ (Len(io) = 2) => pc = "exited"
  /\ (pc = "exited") => (io = <<"read", "write">> /\ file.solutions = kb)
  /\ (pc # "exited") => file = file0

\* the process died after the AI tier had recorded a solution, which the file
\* does not hold
WitC12 ==
  /\ pc = "killed"
  /\ io = <<"read">>
  /\ \E j \in 1..Len(stepLog) :
       /\ stepLog[j].outcome = "ai"
       /\ generateKey([action |-> stepLog[j].action, target |-> stepLog[j].target])
            \notin Ids(file.solutions)

InvC14 ==
  (/\ pc = "exited"
   /\ file0.exists /\ file0.valid /\ file0.hasSolutions
   /\ kb = loadKnowledgeBase(file0).solutions)
    => file.solutions = file0.solutions

\* a second run left alone the solutions that the first run wrote, one of
\* them learned in that run
WitC14 ==
  /\ pc = "exited"
  /\ run = 2
  /\ kb = loadKnowledgeBase(file0).solutions
  /\ file.solutions = file0.solutions
  /\ Len(file.solutions) >= 2
  /\ \E i \in 1..Len(file.solutions) : file.solutions[i].learnedAt > 0

\* C15: in a flow that is over, a step that failed and is not optional is the
\* last step that was executed, and a step that failed and is optional is
\* followed by the execution of the next step of the flow, when there is one.
InvC15 ==
  \A i \in 1..Len(results) :
    LET log == FlowLog(results[i].flowPath)
    IN \A j \in 1..Len(log) :
         log[j].outcome = "threw" =>
           IF log[j].optional
           THEN log[j].number < Len(FlowSteps(flowsData, results[i].flowPath))
                  => \E k \in 1..Len(log) : log[k].number = log[j].number + 1
           ELSE j = Len(log)

\* the flow that the path of the call names in the flows file, when the QA
\* context is loaded and the path names a flow with steps
Called ==
  IF tool.pc # "none" /\ tool.loaded
        /\ getFlowByPath(tool.flowPath, flowsData) # None
        /\ getFlowByPath(tool.flowPath, flowsData)[1].steps # None
  THEN getFlowByPath(tool.flowPath, flowsData)
  ELSE None

Required == {Called[1].requiredParams[i] : i \in 1..Len(Called[1].requiredParams)}

\* the configured defaults: commonParameters.testCredentials, then testData
HasDefault(q) == q \in DOMAIN tool.testCredentials \/ q \in DOMAIN tool.testData
Default(q) ==
  IF q \in DOMAIN tool.testCredentials THEN tool.testCredentials[q]
  ELSE tool.testData[q]

\* C16: a call for a flow with a required parameter that the caller does not
\* supply and that has no default returns the missing-parameter error, with no
\* step started and no screenshot taken.
InvC16 ==
  (/\ Called # None
   /\ tool.pc # "start"
   /\ \E q \in Required : q \notin DOMAIN tool.params /\ ~HasDefault(q))
    => /\ tool.pc = "returned"
       /\ tool.title = "Execute Flow - Missing Parameters"
       /\ tool.executionLog = Empty
       /\ tool.screenshots = 0
       /\ tool.i = 0

\* the error was returned although the caller supplied another parameter and
\* the test data has a default for another one
WitC16 ==
  /\ Called # None
  /\ tool.pc = "returned"
  /\ tool.title = "Execute Flow - Missing Parameters"
  /\ "appointmentName" \in Required
  /\ DOMAIN tool.params = {"email"}
  /\ DOMAIN tool.testData = {"email"}
  /\ tool.testCredentials = << >>

\* C17: a call for a flow whose required parameters are supplied or have a
\* default goes on to the steps, with every required parameter that the caller
\* did not supply bound to its default, which is what the steps substitute.
InvC17 ==
  (/\ Called # None
   /\ tool.pc # "start"
   /\ \A q \in Required : q \in DOMAIN tool.params \/ HasDefault(q))
    => /\ tool.title # "Execute Flow - Missing Parameters"
       /\ \A q \in Required \ DOMAIN tool.params :
            /\ q \in DOMAIN tool.flowParams
            /\ tool.flowParams[q] = Default(q)
            /\ \A j \in 1..Len(tool.executionLog) :
                 LET stepDef == Called[1].steps[1][tool.executionLog[j].step]
                 IN stepDef.value = <<Brace(q)>>
                      => tool.executionLog[j].value = Default(q)

\* the node that a path names had steps when the running process looked it up
\* (steps that were not generated in this run)
HadSteps(flowPath) ==
  LET n == getFlowByPath(flowPath, flowsData)
  IN n # None /\ n[1].steps # None /\ n[1].generatedAt # Some(clock)

RECURSIVE Substituted(_, _)
\* str with every {key} and ${key} whose key is in params replaced by
\* params[key], and every other token as it was
Substituted(str, params) ==
  IF str = Empty THEN Empty
  ELSE LET t == Head(str)
           r == IF t.k \in {"brace", "dollar"} /\ t.v \in DOMAIN params
                THEN params[t.v]
                ELSE <<t>>
       IN r \o Substituted(Tail(str), params)

\* C19: parameter substitution replaces every {key} and every ${key} whose key
\* is in the parameter map by exactly the mapped value and leaves every token
\* whose key is not in the map as it was.
InvC19 ==
  (fn.pc = "done" /\ fn.called \in {"replaceParams", "substituteParams",
                                     "replaceStepParams"})
    => fn.out = Substituted(fn.str, fn.params)

\* a selector that is a compound selector followed by one :contains('text')
CompoundContains(sel) ==
  /\ Len(sel) >= 2
  /\ sel[Len(sel)].k = "contains"
  /\ \A i \in 1..(Len(sel) - 1) : sel[i].k = "lit"

\* C20: selector normalization turns a :contains('text') that follows a
\* compound selector into a has-text predicate on that compound selector, and
\* a selector that is :contains('text') alone into a text-match selector.
InvC20 ==
  (fn.pc = "done" /\ fn.called \in {"convertSelector", "toolConvertSelector"})
    => /\ CompoundContains(fn.str) =>
            fn.out = SubSeq(fn.str, 1, Len(fn.str) - 1)
                       \o <<HasText(Last(fn.str).v)>>
       /\ (Len(fn.str) = 1 /\ fn.str[1].k = "contains") =>
            fn.out = <<TextEq(fn.str[1].v)>>

\* C21: a navigate or screenshot step is executed directly: the knowledge
\* base is not looked up and not modified and the AI Oracle is not called,
\* whether the driver action succeeds or fails.
InvC21 ==
  (InStep /\ stepLog # Empty /\ Last(stepLog).action \in {"navigate", "screenshot"})
    => /\ pc \in {"returned", "threw"}
       /\ Last(stepLog).outcome \in {"direct", "threw"}
       /\ trace = Empty
       /\ kb = kb0
       /\ learnedSolution = None
       /\ aiResponse = None

\* a screenshot step has failed, with an AI client at hand
WitC21 ==
  /\ pc = "threw"
  /\ stepLog # Empty
  /\ Last(stepLog).action = "screenshot"
  /\ AIEnabled(aiClient, mode)
  /\ kb # Empty

\* C22: a flow path resolves to the same flow definition whether the flows
\* file maps the categories at its top level or under a top-level flows key:
\* a path that names a flow of the mapping gives that flow from either file.
InvC22 ==
  (fn.pc = "done" /\ fn.flowPath # "")
    => /\ fn.out.top = fn.out.nested
       /\ LET flow == getFlowByPath(fn.flowPath, InitFlows)
          IN (flow # None /\ flow[1].steps # None) => fn.out.nested = Found(flow)

\* C23: the steps of a flow are executed in their listed order, one at a time:
\* a step starts only after the step before it has finished, the steps of a
\* flow are numbered 1, 2, ... without a gap, and a flow starts only after the
\* flow before it in the suite is over.
InvC23 ==
  /\ \A j \in 1..(Len(stepLog) - 1) :
       /\ stepLog[j].outcome # "running"
       /\ IF stepLog[j + 1].flowPath = stepLog[j].flowPath
          THEN stepLog[j + 1].number = stepLog[j].number + 1
          ELSE /\ stepLog[j + 1].number = 1
               /\ pc # "killed" =>
                    \E r \in 1..Len(results) : results[r].flowPath = stepLog[j].flowPath
               /\ \A k \in 1..j : stepLog[k].flowPath # stepLog[j + 1].flowPath
  /\ stepLog # Empty =>
       /\ stepLog[1].number = 1
       /\ pc # "killed" =>
            \A j \in 1..Len(stepLog) :
              stepLog[j].action = FlowSteps(flowsData, stepLog[j].flowPath)
                                    [stepLog[j].number].action
       /\ Last(stepLog).outcome = "running" => (InStep \/ pc = "killed")

\* the second flow of a suite is at its second step, after the three steps of
\* the first flow
WitC23 ==
  /\ Len(stepLog) = 5
  /\ stepLog[3].flowPath # stepLog[4].flowPath
  /\ Last(stepLog).number = 2
  /\ Last(stepLog).outcome = "direct"

\* C24: the set of solution ids of the in-memory knowledge base grows only in
\* a step that the AI tier resolved: while a step runs, and when it ends with
\* any other outcome, every id was there when the step began; a step that the
\* learned tier resolved ends with the ids it began with.
InvC24 ==
  (InStep /\ stepLog # Empty) =>
    /\ Last(stepLog).outcome # "ai" => Ids(kb) \subseteq Ids(kb0)
    /\ Last(stepLog).outcome = "learned" => Ids(kb) = Ids(kb0)
    /\ Last(stepLog).outcome = "ai" =>
         /\ generateKey(CurStep) \in Ids(kb)
         /\ Ids(kb) \subseteq Ids(kb0) \cup {generateKey(CurStep)}

\* the AI tier resolved a step and its id is new in a knowledge base that was
\* not empty
WitC24 ==
  /\ pc = "returned"
  /\ stepLog # Empty
  /\ Last(stepLog).outcome = "ai"
  /\ kb0 # Empty
  /\ Ids(kb) # Ids(kb0)

\* C25: in a sequence of getPage and navigate calls without a closePage, close
\* or reset among them, and while the page is not closed, every call returns
\* the same page and after the first call no browser, context or page is
\* created.
InvC25 ==
  pc = "bm" =>
    \A i \in 1..Len(bm.calm) : \A j \in 1..Len(bm.calm) : bm.calm[i] = bm.calm[j]

\* three calls in a row after the page was closed and made again
WitC25 ==
  /\ pc = "bm"
  /\ Len(bm.calm) = 3
  /\ bm.pages = 2
  /\ bm.last = "navigate raised"

\* C26: an AI-driven test loop makes at most maxSteps iterations: at most
\* maxSteps requests to the model and at most maxSteps actions, the failed
\* ones counted, and it ends as soon as the model has returned a complete
\* action.
InvC26 ==
  pc = "loop" =>
    /\ loop.stepNumber <= loop.maxSteps
    /\ loop.aiCalls <= loop.stepNumber
    /\ loop.actions <= loop.aiCalls
    /\ loop.failed <= loop.actions
    /\ \A i \in 1..Len(loop.asked) :
         loop.asked[i] = "complete" =>
           /\ i = Len(loop.asked)
           /\ loop.pc \in {"act", "returned", "finally", "exited"}

\* the loop ended at maxSteps, with failed actions among them
WitC26 ==
  /\ pc = "loop"
  /\ loop.pc = "returned"
  /\ loop.maxSteps = 3
  /\ loop.actions = 3
  /\ loop.failed = 2
  /\ ~loop.testComplete

\* C27: in the CI hybrid runner a solution that saveLearnedSolution saved after
\* an AI fallback success is used for a later step with the same action whose
\* deterministic attempt fails: with such a solution in the file, and its
\* selector honored by the page, the step is resolved by the learned solution
\* and the AI is not called for it.
InvC27 ==
  pc = "ci" =>
    \A j \in 1..Len(ci.log) :
      (ci.log[j].usable /\ ci.log[j].outcome # "deterministic")
        => ci.log[j].outcome = "learned"

\* C28: executing flows never changes a loaded flow definition or its steps
\* and never rewrites the flows file: the flows in memory are the flows that
\* were loaded, and the file is the file that the first run found.
InvC28 ==
  /\ flowsFile = InitFlows
  /\ pc \notin {"boot", "load", "killed"} => flowsData = InitFlows

\* C29: the pageType of the execution context is the classification of the
\* page's current URL when the step executes.
InvC29 ==
  (pc \in {"det", "lookup", "learned", "ai", "aiExec"} /\ context # None)
    => context[1].pageType = classifyPage(location)

\* C30: in execute_flow the failure of an optional step is absorbed: the flow
\* is reported failed exactly when a step that is not optional failed, and a
\* run whose failing steps are all optional is reported as a success.
InvC30 ==
  (pc = "tool" /\ tool.pc = "returned" /\ tool.title \in {"Flow Completed", "Flow Failed"})
    => (tool.title = "Flow Failed"
          <=> \E j \in 1..Len(tool.executionLog) :
                ~tool.executionLog[j].ok /\ ~tool.executionLog[j].optional)

\* C31: the three tiers act with the same value, the parameter-substituted
\* one: every deterministic, learned and AI attempt of the running step is
\* made with replaceParams(step.value, params).
InvC31 ==
  InStep =>
    \A j \in 1..Len(trace) :
      trace[j].ev \in TierEvents => trace[j].value = StepValue

\* C32: the runner exits with a code other than 0 whenever main caught a
\* fatal error or a flow failed; it exits with 0 only if every flow of the
\* suite ran and passed.
InvC32 ==
  (pc = "exited" /\ proc.exitCode = Some(0))
    => /\ proc.error = ""
       /\ Len(flowPaths) > 0
       /\ Len(results) = Len(flowPaths)
       /\ \A j \in 1..Len(results) : results[j].status = "passed"

\* C33: in the CI hybrid, 100% AI and unified runners every run that reached
\* main has its browser closed and its report files generated when the
\* process has exited, whether or not a step or an action failed.
InvC33 ==
  /\ (pc = "loop" /\ loop.pc = "exited") => (loop.closed /\ loop.report)
  /\ (pc = "ci" /\ ci.pc = "exited") => (ci.closed /\ ci.reports)

\* C34: the 100% AI and unified runners print the success message and exit
\* with code 0 only if the AI returned a complete action.
InvC34 ==
  (pc = "loop" /\ loop.pc = "exited" /\ (loop.success \/ loop.exitCode = Some(0)))
    => loop.testComplete

\* C35: hybridStats.aiCost is 0.016 times the number of AI-tier attempts: the
\* step of the runner that ends an AI attempt (the Oracle raised or gave no
\* selector, or the suggested selector was tried, with or without success)
\* adds exactly 16 thousandths, and no other step of a run changes the cost.
InvC35 ==
  [][LET attempt == \/ pc = "ai" /\ AIEnabled(aiClient, mode) /\ pc' = "threw"
                    \/ pc = "aiExec" /\ pc' \in {"returned", "threw"}
     IN /\ attempt => hybridStats'.aiCost = hybridStats.aiCost + 16
        /\ (~attempt /\ pc' \notin {"killed", "boot"})
             => hybridStats'.aiCost = hybridStats.aiCost]_vars

\* C36: the learned-tier lookup never raises, whatever knowledge base was
\* loaded, entries without pageContext included: when a step comes to the
\* lookup, findLearnedSolution yields a solution or none.
InvC36 ==
  pc = "lookup" => ~findLearnedSolution(CurStep, context[1], kb).threw

\* the number of steps started in this run that ended with one of the outcomes
Ended(outcomes) ==
  Cardinality({j \in 1..Len(stepLog) : stepLog[j].outcome \in outcomes})

\* C37: deterministicSuccess + learnedSuccess + aiSuccess <= totalSteps at
\* every point of a run; every call of executeStepHybrid adds 1 to totalSteps,
\* a call that returned added 1 to exactly one success counter (the one of the
\* tier that resolved it, the deterministic one for navigate and screenshot),
\* and a call that raised or is still running added to none.
InvC37 ==
  pc # "killed" =>
    /\ hybridStats.deterministicSuccess + hybridStats.learnedSuccess
         + hybridStats.aiSuccess <= hybridStats.totalSteps
    /\ hybridStats.totalSteps = Len(stepLog)
    /\ hybridStats.deterministicSuccess = Ended({"deterministic", "direct"})
    /\ hybridStats.learnedSuccess = Ended({"learned"})
    /\ hybridStats.aiSuccess = Ended({"ai"})

\* a run with a direct step, a step that the AI tier resolved and a step that
\* raised
WitC37 ==
  /\ pc = "threw"
  /\ hybridStats.totalSteps = 3
  /\ hybridStats.deterministicSuccess = 1
  /\ hybridStats.aiSuccess = 1

\* C38: after any sequence of BrowserManager operations at most one browser
\* context that the manager created is open.
InvC38 ==
  pc = "bm" => Cardinality(bm.openCtx) <= 1

\* C39: two calls of getPage that find no page, overlapping or not, return
\* the same page, and between them one page, at most one context and at most
\* one browser are created.
InvC39 ==
  (pc = "race" /\ \A c \in Callers : bm.calls[c].pc = "done")
    => /\ bm.calls[1].ret = bm.calls[2].ret
       /\ bm.m.pages = bm.b0.pages + 1
       /\ bm.m.contexts <= bm.b0.contexts + 1
       /\ bm.m.launched <= bm.b0.launched + 1

\* C40: the cached QA context changes only on a fully successful load: a
\* call of load_qa_context that returns an error leaves the cache as it found
\* it, a call without reload that found a context reads no file and leaves
\* the cache as it is, and execute_flow without a cached context returns an
\* error and executes no step.
InvC40 ==
  pc = "ctx" =>
    LET last == tool.last
    IN /\ (last.name = "load_qa_context" /\ last.title # "QA Context Loaded")
            => tool.contextCache = last.before
       /\ (last.name = "load_qa_context" /\ ~last.reload /\ last.before # None)
            => last.reads = 0 /\ tool.contextCache = last.before
       /\ (last.name = "execute_flow" /\ last.before = None)
            => last.title = "Execute Flow - Error" /\ last.steps = 0

====
